---- MODULE Spec2Model ----
(***************************************************************************)
(* The kernel thread scheduler of threads/thread.c: thread table, ready    *)
(* queue, sleep set (waiting_list), destruction queue, idle thread, timer  *)
(* tick and the context switch, on one CPU.  A state of the model is a     *)
(* point at which the running thread is between two kernel calls, or in    *)
(* the middle of one that the code itself leaves interruptible.            *)
(*                                                                         *)
(* threads/synch.c and devices/timer.c are not part of the source tree     *)
(* at hand; sema_down, sema_up, timer_sleep and timer_interrupt follow     *)
(* the design document (sections 4.3, 4.4 and 6).                          *)
(***************************************************************************)
EXTENDS Integers, Sequences, FiniteSets, TLC

VARIABLES
    thread,           \* page |-> struct thread (status "NONE": page not allocated)
    ready_list,       \* static struct list ready_list
    waiting_list,     \* static struct list waiting_list (the sleep set)
    destruction_req,  \* static struct list destruction_req
    idle_thread,      \* static struct thread *idle_thread
    current,          \* running_thread(): the thread whose stack the CPU is on
    ticks,            \* the timer's tick counter, relative to a moving origin
    thread_ticks,     \* static unsigned thread_ticks
    intr_level,       \* the CPU's interrupt flag, "ON" or "OFF"
    in_intr,          \* intr_context(): inside the timer interrupt handler
    yield_on_return,  \* set by intr_yield_on_return()
    sema,             \* semaphore |-> [value, waiters]
    next_tid,         \* allocate_tid's static tid_t next_tid
    holder,           \* lock |-> the thread that holds it, or NULL
    ret,              \* what the thread_create that the latest step completed
                      \* has returned, 0 when the step completed none
    panic,            \* a kernel ASSERT has failed
    sort_list,        \* a struct list of lib/kernel/list.c, front first
    sort_aux,         \* its comparator: elem |-> the rank that LESS compares
    sort_input        \* the list as the latest call on it found it

kernel_vars == <<thread, ready_list, waiting_list, destruction_req,
                 idle_thread, current, ticks, thread_ticks, intr_level,
                 in_intr, yield_on_return, sema, next_tid, holder, ret, panic>>

list_vars == <<sort_list, sort_aux, sort_input>>

vars == <<thread, ready_list, waiting_list, destruction_req, idle_thread,
          current, ticks, thread_ticks, intr_level, in_intr, yield_on_return,
          sema, next_tid, holder, ret, panic, sort_list, sort_aux, sort_input>>

---------------------------------------------------------------------------
\* Bounds of the model.

\* Thread pages that palloc can hand out besides the two of main and idle.
MaxUser == 2

\* Longest sleep, in ticks, that a thread asks for.
MaxSleep == 2

\* Width of the window in which the tick counter is represented.
MaxTicks == 2

\* The largest thread identifier that allocate_tid hands out.
MaxTid == 4

\* Elements of the list that list_sort is given.
MaxElems == 3

---------------------------------------------------------------------------
\* Program constants.

PRI_MIN == 0
PRI_DEFAULT == 31
PRI_MAX == 63
TIME_SLICE == 4

NULL == -1
TID_ERROR == -1

\* The page of the bootstrap thread (initial_thread = running_thread()).
initial_thread == 0

Threads == 0 .. (MaxUser + 2)

\* Priorities handed to thread_create and thread_set_priority by user code.
Priorities == {PRI_DEFAULT, PRI_MAX}

\* Integers handed to them by code that does not keep to the range.
AnyPriority == {PRI_MIN - 1, PRI_MIN, PRI_DEFAULT, PRI_MAX, PRI_MAX + 1}

\* init_thread: ASSERT(PRI_MIN <= priority && priority <= PRI_MAX).
priority_ok(p) == PRI_MIN <= p /\ p <= PRI_MAX

\* The locks in use: tid_lock and the system calls' filesys_lock.
Locks == {"tid_lock", "filesys_lock"}

\* The semaphores in use: thread_start's idle_started and the one in tid_lock.
Semas == {"idle_started"} \cup Locks

\* Mutant: every semaphore starts at 1.
sema_init_open(s) == 1

\* sema_init(&idle_started, 0); lock_init starts a lock's semaphore at 1.
sema_init_value(s) == IF s = "idle_started" THEN 0 ELSE 1

Range(s) == {s[i] : i \in 1 .. Len(s)}

\* Position of thread t in list s, 0 when t is not on it.
Pos(s, t) == IF t \in Range(s) THEN CHOOSE i \in 1 .. Len(s) : s[i] = t ELSE 0

\* The system call a thread is in: its number n, its pointer argument uptr,
\* the kernel service svc it is inside, the page of exec's command-line copy
\* and the number of times this call has invoked process_exec.
NoCall ==
    [n |-> "none", uptr |-> "none", svc |-> "none", copy |-> "none",
     execs |-> 0]

\* A page that is not allocated: palloc_get_page(PAL_ZERO) returns it zeroed.
NoThread ==
    [status |-> "NONE", tid |-> 0, priority |-> 0, initial_priority |-> 0,
     donations |-> <<>>, wakeup_time |-> 0, pc |-> "none",
     creating |-> NULL, tid_local |-> 0, sema |-> "none",
     exit_status |-> 0, sys |-> NoCall, old_level |-> "none",
     call_level |-> "none"]

\* init_thread(t, name, priority): memset to zero, then status and priority;
\* initial_priority and donations are left as the memset leaves them.  entry
\* is where kernel_thread(function) starts.
init_thread(priority, entry) ==
    [status |-> "BLOCKED", tid |-> 0, priority |-> priority,
     initial_priority |-> 0, donations |-> <<>>, wakeup_time |-> 0,
     pc |-> entry, creating |-> NULL, tid_local |-> 0, sema |-> "none",
     exit_status |-> 0, sys |-> NoCall, old_level |-> "none",
     call_level |-> "none"]

\* Mutant: allocate_tid without the increment.
tid_next_same(tid) == tid

\* allocate_tid: the value that next_tid++ leaves in next_tid.
tid_next(tid) == tid + 1

\* list_push_back(list, elem)
list_push_back(list, elem) == Append(list, elem)

---------------------------------------------------------------------------
\* lib/kernel/list.c: list_sort.  A list is the sequence of its elements,
\* front first; an element is named by its position, and the position after
\* the last stands for list_end.

Elems == 1 .. MaxElems

\* Every strict weak order on the elements is the order of some ranking.
Ranks == 1 .. MaxElems

\* The lists: no element is linked twice.
Lists ==
    {l \in UNION {[1 .. n -> Elems] : n \in 0 .. MaxElems} :
        \A i, j \in DOMAIN l : i # j => l[i] # l[j]}

\* called: the latest call was list_sort; inserted: the element that the
\* latest call, a list_insert_ordered, was given (0: it was none).
NoSort == [called |-> FALSE, inserted |-> 0, list |-> <<>>]

\* less (a, b, aux)
less(aux, a, b) == aux[a] < aux[b]

list_end(l) == Len(l) + 1

is_sorted(l, aux) ==
    \A i \in 1 .. (Len(l) - 1) : ~less(aux, l[i + 1], l[i])

\* find_end_of_run: the end of the run of nondecreasing elements that starts
\* at a and does not go past b.
RECURSIVE find_end_of_run(_, _, _, _)
find_end_of_run(l, aux, a, b) ==
    LET n == a + 1 IN
    IF n # b /\ ~less(aux, l[n], l[n - 1])
    THEN find_end_of_run(l, aux, n, b)
    ELSE n

\* list_splice (before, first, list_next (first)): the one element at first
\* is unlinked and linked again just before the element at before.
list_splice(l, before, first) ==
    [i \in 1 .. Len(l) |->
        IF i < before \/ i > first THEN l[i]
        ELSE IF i = before THEN l[first]
        ELSE l[i - 1]]

\* Mutant: inplace_merge moves the element of the second run on a tie.
takes_first_strict(aux, a, b) == less(aux, a, b)

\* inplace_merge: the element a of the first run stays in front of b.
takes_first(aux, a, b) == ~less(aux, b, a)

RECURSIVE inplace_merge(_, _, _, _, _)
inplace_merge(l, aux, a0, a1b0, b1) ==
    IF a0 # a1b0 /\ a1b0 # b1
    THEN IF takes_first(aux, l[a0], l[a1b0])
         THEN inplace_merge(l, aux, a0 + 1, a1b0, b1)
         ELSE inplace_merge(list_splice(l, a0, a1b0), aux,
                            a0 + 1, a1b0 + 1, b1)
    ELSE l

\* One pass of list_sort's for loop from a0 on: adjacent runs are merged in
\* pairs, and the runs that come out are counted.
RECURSIVE sort_pass(_, _, _, _)
sort_pass(l, aux, a0, output_run_cnt) ==
    IF a0 = list_end(l)
    THEN [list |-> l, output_run_cnt |-> output_run_cnt]
    ELSE LET a1b0 == find_end_of_run(l, aux, a0, list_end(l)) IN
         IF a1b0 = list_end(l)
         THEN [list |-> l, output_run_cnt |-> output_run_cnt + 1]
         ELSE LET b1 == find_end_of_run(l, aux, a1b0, list_end(l)) IN
              sort_pass(inplace_merge(l, aux, a0, a1b0, b1), aux, b1,
                        output_run_cnt + 1)

\* Mutant: list_sort makes a single pass.
sort_once(output_run_cnt) == FALSE

\* list_sort: while (output_run_cnt > 1)
sort_again(output_run_cnt) == output_run_cnt > 1

RECURSIVE list_sort(_, _)
list_sort(l, aux) ==
    LET pass == sort_pass(l, aux, 1, 0) IN
    IF sort_again(pass.output_run_cnt)
    THEN list_sort(pass.list, aux)
    ELSE pass.list

\* list_sort (&sort_list, less, sort_aux), with its closing ASSERT.
ListSort ==
    /\ ~panic
    /\ sort_input' = [called |-> TRUE, inserted |-> 0, list |-> sort_list]
    /\ sort_list' = list_sort(sort_list, sort_aux)
    /\ panic' = ~is_sorted(list_sort(sort_list, sort_aux), sort_aux)
    /\ UNCHANGED <<thread, ready_list, waiting_list, destruction_req,
                   idle_thread, current, ticks, thread_ticks, intr_level,
                   in_intr, yield_on_return, sema, next_tid, holder, ret,
                   sort_aux>>

\* palloc_get_page: the free page handed out (pages are interchangeable).
\* The pool has pool pages besides the idle thread's.
FreePages(pool) == {t \in 1 .. (pool + 1) : thread[t].status = "NONE"}
palloc_get_page(pool) ==
    CHOOSE t \in FreePages(pool) : \A u \in FreePages(pool) : t <= u

---------------------------------------------------------------------------
\* thread_init: the state when thread_start is entered; main has the first
\* tid.

BootInit ==
    /\ thread = [t \in Threads |->
                    IF t = initial_thread
                    THEN [init_thread(PRI_DEFAULT, "boot") EXCEPT
                             !.status = "RUNNING", !.tid = 1]
                    ELSE NoThread]
    /\ ready_list = <<>>
    /\ waiting_list = <<>>
    /\ destruction_req = <<>>
    /\ idle_thread = NULL
    /\ current = initial_thread
    /\ ticks = 0
    /\ thread_ticks = 0
    /\ intr_level = "OFF"
    /\ in_intr = FALSE
    /\ yield_on_return = FALSE
    /\ sema = [s \in Semas |-> [value |-> sema_init_value(s), waiters |-> <<>>]]
    /\ next_tid = tid_next(1)
    /\ holder = [l \in Locks |-> NULL]
    /\ ret = 0
    /\ panic = FALSE

\* No list is under sort while the scheduler is observed.
Init ==
    /\ BootInit
    /\ sort_list = <<>>
    /\ sort_aux = [e \in Elems |-> 1]
    /\ sort_input = NoSort

---------------------------------------------------------------------------
\* The scheduler core.

\* Mutant: next_thread_to_run prefers the idle thread once there is one.
next_thread_to_run_idle(rl) ==
    IF rl = <<>> \/ idle_thread # NULL THEN idle_thread ELSE Head(rl)

\* next_thread_to_run: the front of the ready queue, idle_thread when it is empty.
next_thread_to_run(rl) == IF rl = <<>> THEN idle_thread ELSE Head(rl)

\* Mutant: list_front in place of list_pop_front.
ready_after_pick_keep(rl) == rl

\* The ready queue after next_thread_to_run's list_pop_front.
ready_after_pick(rl) == IF rl = <<>> THEN rl ELSE Tail(rl)

\* The interrupt flag with which a thread continues when it is switched to:
\* a thread woken inside sema_down is still in that function's interrupts-off
\* section; every other thread returns to code that has interrupts on
\* (kernel_thread's intr_enable, intr_set_level(old_level), iretq, sti).
resume_level(t) ==
    IF t.pc \in {"sema_retry", "yield_return", "sleep_return"}
    THEN "OFF"
    ELSE "ON"

\* Mutant: schedule() queues no thread for destruction.
dying_queued_never(th, curr, next) == FALSE

\* Mutant: the bootstrap thread is queued for destruction like any other.
dying_queued_main(th, curr, next) ==
    curr # next /\ th[curr].status = "DYING"

\* schedule()'s test for queueing the outgoing thread on destruction_req.
dying_queued(th, curr, next) ==
    curr # next /\ th[curr].status = "DYING" /\ curr # initial_thread

\* schedule(), entered with the thread table th, ready queue rl and
\* destruction queue dq that its caller has prepared.
schedule(th, rl, dq) ==
    LET curr == current
        next == next_thread_to_run(rl)
    IN  IF next = NULL \/ th[curr].status = "RUNNING"
        THEN /\ panic' = TRUE
             /\ thread' = th
             /\ ready_list' = ready_after_pick(rl)
             /\ destruction_req' = dq
             /\ intr_level' = "OFF"
             /\ UNCHANGED <<current, thread_ticks>>
        ELSE LET th1 == [th EXCEPT ![next].status = "RUNNING"]
                 dying == dying_queued(th1, curr, next)
             IN  /\ thread' = th1
                 /\ ready_list' = ready_after_pick(rl)
                 /\ destruction_req' = IF dying THEN list_push_back(dq, curr) ELSE dq
                 /\ current' = next
                 /\ thread_ticks' = 0
                 /\ intr_level' = resume_level(th1[next])
                 /\ UNCHANGED panic

\* Mutant: do_schedule leaves the destruction queue as it is.
do_schedule_keep(new_status, th, rl) ==
    schedule([th EXCEPT ![current].status = new_status], rl, destruction_req)

\* do_schedule(status): free the pages queued for destruction, set the
\* running thread's status, schedule.
do_schedule(new_status, th, rl) ==
    LET victims == Range(destruction_req)
        th1 == [t \in Threads |-> IF t \in victims THEN NoThread ELSE th[t]]
        th2 == [th1 EXCEPT ![current].status = new_status]
    IN  schedule(th2, rl, <<>>)

\* thread_block(): the running thread becomes BLOCKED, schedule.
thread_block(th, rl) ==
    schedule([th EXCEPT ![current].status = "BLOCKED"], rl, destruction_req)

\* Mutant: list_push_front in thread_yield.
yield_queue_front(rl, curr) ==
    IF curr # idle_thread THEN <<curr>> \o rl ELSE rl

\* Mutant: thread_yield queues nothing.
yield_queue_drop(rl, curr) == rl

\* thread_yield()'s queueing of the running thread: not for the idle thread.
\* Mutant: thread_yield queues the idle thread like any other.
yield_queue_all(rl, curr) == list_push_back(rl, curr)

\* thread_yield: if (curr != idle_thread) list_push_back(&ready_list, ...).
yield_queue(rl, curr) == IF curr # idle_thread THEN list_push_back(rl, curr) ELSE rl

\* Mutant: thread_yield leaves the running thread's status RUNNING.
thread_yield_running(th, rl) ==
    do_schedule("RUNNING", th, yield_queue(rl, current))

\* thread_yield()
thread_yield(th, rl) == do_schedule("READY", th, yield_queue(rl, current))

\* Mutant: list_push_front in thread_unblock.
unblock_queue_front(rl, t) == <<t>> \o rl

\* thread_unblock(t)'s queueing of t.
unblock_queue(rl, t) == list_push_back(rl, t)

\* Mutant: thread_unblock without its ASSERT.
unblock_ok_any(t) == TRUE

\* thread_unblock(t)'s ASSERT(t->status == THREAD_BLOCKED).
unblock_ok(t) == t.status = "BLOCKED"

\* Mutant: thread_unblock marks the thread RUNNING.
unblock_status_running(th, t) == [th EXCEPT ![t].status = "RUNNING"]

\* thread_unblock(t): the thread table afterwards.
unblock_status(th, t) == [th EXCEPT ![t].status = "READY"]

---------------------------------------------------------------------------
\* Running(t): t is on the CPU in thread context and about to make a call.
Running(t) == /\ ~panic
              /\ current = t
              /\ ~in_intr

\* thread_start, first half: thread_create("idle", PRI_MIN, idle, &idle_started)
\* up to and including init_thread and allocate_tid.  Interrupts are off and
\* tid_lock is free, so allocate_tid runs through.
BootCreateIdle ==
    /\ ret' = 0
    /\ UNCHANGED list_vars
    /\ Running(initial_thread)
    /\ thread[initial_thread].pc = "boot"
    /\ FreePages(MaxUser) # {}
    /\ LET t == palloc_get_page(MaxUser)
       IN  thread' = [thread EXCEPT ![t] = [init_thread(PRI_MIN, "idle_init")
                                              EXCEPT !.tid = next_tid],
                                    ![initial_thread].creating = t,
                                    ![initial_thread].pc = "boot_create"]
    /\ next_tid' = tid_next(next_tid)
    /\ UNCHANGED <<ready_list, waiting_list, destruction_req, idle_thread,
                   current, ticks, thread_ticks, intr_level, in_intr,
                   yield_on_return, sema, holder, panic>>

\* thread_create, last part: thread_unblock(t) and return tid.
CreateFinish(c) ==
    /\ Running(c)
    /\ thread[c].pc \in {"create", "boot_create"}
    /\ LET t == thread[c].creating
           after == IF thread[c].pc = "create" THEN "run" ELSE "boot_enable"
       IN  IF ~unblock_ok(thread[t])
           THEN /\ panic' = TRUE
                /\ ret' = 0
                /\ UNCHANGED list_vars
                /\ UNCHANGED <<thread, ready_list>>
           ELSE /\ thread' = [unblock_status(thread, t) EXCEPT
                                 ![c].creating = NULL, ![c].pc = after]
                /\ ready_list' = unblock_queue(ready_list, t)
                /\ ret' = thread[t].tid
                /\ UNCHANGED list_vars
                /\ UNCHANGED panic
    /\ UNCHANGED <<waiting_list, destruction_req, idle_thread, current, ticks,
                   thread_ticks, intr_level, in_intr, yield_on_return, sema,
                   next_tid, holder>>

\* thread_start: intr_enable().
BootEnable ==
    /\ ret' = 0
    /\ UNCHANGED list_vars
    /\ Running(initial_thread)
    /\ thread[initial_thread].pc = "boot_enable"
    /\ intr_level' = "ON"
    /\ thread' = [thread EXCEPT ![initial_thread].pc = "boot_down"]
    /\ UNCHANGED <<ready_list, waiting_list, destruction_req, idle_thread,
                   current, ticks, thread_ticks, in_intr, yield_on_return,
                   sema, next_tid, holder, panic>>

\* thread_yield() called by a running thread.
Yield(c) ==
    /\ ret' = 0
    /\ UNCHANGED list_vars
    /\ Running(c)
    /\ thread[c].pc = "run"
    /\ intr_level = "ON"
    /\ thread_yield(thread, ready_list)
    /\ UNCHANGED <<waiting_list, idle_thread, ticks, in_intr, yield_on_return,
                   sema, next_tid, holder>>

\* thread_exit()
Exit(c) ==
    /\ ret' = 0
    /\ UNCHANGED list_vars
    /\ Running(c)
    /\ thread[c].pc = "run"
    /\ intr_level = "ON"
    /\ do_schedule("DYING", [thread EXCEPT ![c].pc = "dying"],
                   ready_list)
    /\ UNCHANGED <<waiting_list, idle_thread, ticks, in_intr, yield_on_return,
                   sema, next_tid, holder>>

\* thread_set_priority(new_priority)
thread_set_priority(th, c, p) == [th EXCEPT ![c].priority = p]

SetPriority(c, p) ==
    /\ ret' = 0
    /\ UNCHANGED list_vars
    /\ Running(c)
    /\ thread[c].pc = "run"
    /\ intr_level = "ON"
    /\ thread' = thread_set_priority(thread, c, p)
    /\ UNCHANGED <<ready_list, waiting_list, destruction_req, idle_thread,
                   current, ticks, thread_ticks, intr_level, in_intr,
                   yield_on_return, sema, next_tid, holder, panic>>

---------------------------------------------------------------------------
\* Semaphores (threads/synch.c, after the design document, section 4.4).

\* The wait set with t inserted in descending priority, behind its equals.
sema_insert(waiters, t, th) ==
    LET ahead == {i \in 1 .. Len(waiters) :
                     th[waiters[i]].priority >= th[t].priority}
        k == Cardinality(ahead)
    IN  IF \A i \in 1 .. Len(waiters) : i \in ahead <=> i <= k
        THEN SubSeq(waiters, 1, k) \o <<t>> \o SubSeq(waiters, k + 1, Len(waiters))
        ELSE LET first == CHOOSE i \in 1 .. Len(waiters) :
                              /\ i \notin ahead
                              /\ \A j \in 1 .. (i - 1) : j \in ahead
             IN  SubSeq(waiters, 1, first - 1) \o <<t>>
                 \o SubSeq(waiters, first, Len(waiters))

\* The waiter that sema_up releases: after the re-sort by current priority,
\* the first of those with the highest priority.
sema_front(waiters, th) ==
    CHOOSE i \in 1 .. Len(waiters) :
        /\ \A j \in 1 .. Len(waiters) :
              th[waiters[j]].priority <= th[waiters[i]].priority
        /\ \A j \in 1 .. (i - 1) :
              th[waiters[j]].priority < th[waiters[i]].priority

\* Stable sort of a wait set by descending priority.
RECURSIVE sema_sort(_, _)
sema_sort(waiters, th) ==
    IF waiters = <<>> THEN <<>>
    ELSE LET i == sema_front(waiters, th)
         IN  <<waiters[i]>> \o
             sema_sort(SubSeq(waiters, 1, i - 1) \o
                       SubSeq(waiters, i + 1, Len(waiters)), th)

\* Where a thread continues after sema_down(s): after lock_acquire(&tid_lock)
\* inside allocate_tid, after sema_down(&idle_started) behind thread_start.
down_after(s) ==
    CASE s = "tid_lock" -> "alloc_tid"
      [] s = "filesys_lock" -> "sys_locked"
      [] OTHER -> "run"

\* sema_down(s) from its loop test on, by the running thread c, with the
\* thread table th; for the semaphore of a lock this is lock_acquire, which
\* records the holder.
sema_down(c, s, th) ==
    IF sema[s].value = 0
    THEN /\ sema' = [sema EXCEPT ![s].waiters = sema_insert(@, c, th)]
         /\ thread_block([th EXCEPT ![c].pc = "sema_retry", ![c].sema = s],
                         ready_list)
         /\ UNCHANGED holder
    ELSE /\ sema' = [sema EXCEPT ![s].value = @ - 1]
         /\ thread' = [th EXCEPT ![c].pc = down_after(s), ![c].sema = "none"]
         /\ holder' = IF s \in Locks THEN [holder EXCEPT ![s] = c] ELSE holder
         /\ intr_level' = "ON"
         /\ UNCHANGED <<ready_list, destruction_req, current, thread_ticks, panic>>

\* sema_up(s) by the running thread c, with the thread table th; c continues
\* at pc `after`.  Up to the unblocking of the front waiter; the yield to a
\* waiter of higher priority is the step SemaYield.
sema_up(c, s, th, after) ==
    LET th0 == [th EXCEPT ![c].pc = after]
    IN  IF sema[s].waiters = <<>>
        THEN /\ sema' = [sema EXCEPT ![s].value = @ + 1]
             /\ thread' = th0
             /\ UNCHANGED <<ready_list, destruction_req, current, thread_ticks,
                            intr_level, panic>>
        ELSE LET sorted == sema_sort(sema[s].waiters, thread)
                 w == Head(sorted)
                 th1 == unblock_status(th0, w)
                 rl1 == unblock_queue(ready_list, w)
             IN  /\ sema' = [sema EXCEPT ![s].value = @ + 1,
                                         ![s].waiters = Tail(sorted)]
                 /\ IF ~unblock_ok(thread[w])
                    THEN /\ panic' = TRUE
                         /\ thread' = th0
                         /\ UNCHANGED <<ready_list, destruction_req, current,
                                        thread_ticks, intr_level>>
                    ELSE IF thread[w].priority > thread[c].priority
                         THEN /\ thread' = [th1 EXCEPT ![c].pc = "sema_yield",
                                                       ![c].sema = s]
                              /\ ready_list' = rl1
                              /\ intr_level' = "OFF"
                              /\ UNCHANGED <<destruction_req, current,
                                             thread_ticks, panic>>
                         ELSE /\ thread' = th1
                              /\ ready_list' = rl1
                              /\ UNCHANGED <<destruction_req, current,
                                             thread_ticks, intr_level, panic>>

\* Where a thread continues after the sema_up(s) in which it yields.
up_after(s) ==
    CASE s = "idle_started" -> "idle_loop"
      [] s = "filesys_lock" -> "run"
      [] OTHER -> "create"

\* The thread_yield at the end of sema_up, still with interrupts off.
SemaYield(c) ==
    /\ ret' = 0
    /\ UNCHANGED list_vars
    /\ Running(c)
    /\ thread[c].pc = "sema_yield"
    /\ thread_yield([thread EXCEPT ![c].pc = up_after(thread[c].sema),
                                   ![c].sema = "none"], ready_list)
    /\ UNCHANGED <<waiting_list, idle_thread, ticks, in_intr, yield_on_return,
                   sema, next_tid, holder>>

\* thread_start: sema_down(&idle_started); thread_start then returns.
BootSemaDown ==
    /\ ret' = 0
    /\ UNCHANGED list_vars
    /\ Running(initial_thread)
    /\ thread[initial_thread].pc = "boot_down"
    /\ intr_level = "ON"
    /\ sema_down(initial_thread, "idle_started", thread)
    /\ UNCHANGED <<waiting_list, idle_thread, ticks, in_intr, yield_on_return,
                   next_tid>>

\* A thread woken inside sema_down tests the value again.
SemaRetry(c) ==
    /\ ret' = 0
    /\ UNCHANGED list_vars
    /\ Running(c)
    /\ thread[c].pc = "sema_retry"
    /\ sema_down(c, thread[c].sema, thread)
    /\ UNCHANGED <<waiting_list, idle_thread, ticks, in_intr, yield_on_return,
                   next_tid>>

---------------------------------------------------------------------------
\* thread_create and allocate_tid, called by a running thread c with
\* interrupts on.

\* The tids that are given out or owed to a thread_create under way.
TidsPromised ==
    next_tid + Cardinality({c \in Threads :
                               /\ thread[c].creating # NULL
                               /\ thread[thread[c].creating].tid = 0})

\* Mutant: the tid is allocated before the page is asked for.
create_no_page_tid(c) ==
    /\ ret' = TID_ERROR
    /\ UNCHANGED list_vars
    /\ next_tid' = tid_next(next_tid)
    /\ UNCHANGED <<thread, ready_list, destruction_req, current, thread_ticks,
                   intr_level, sema, holder, panic>>

\* thread_create: if (t == NULL) return TID_ERROR;
create_no_page(c) ==
    /\ ret' = TID_ERROR
    /\ UNCHANGED list_vars
    /\ UNCHANGED <<thread, ready_list, destruction_req, current, thread_ticks,
                   intr_level, sema, next_tid, holder, panic>>

\* thread_create: palloc_get_page; TID_ERROR when there is no page, else
\* init_thread and allocate_tid's lock_acquire(&tid_lock).
CreateBegin(c, p, pool, cap) ==
    /\ Running(c)
    /\ thread[c].pc = "run"
    /\ intr_level = "ON"
    /\ IF FreePages(pool) = {}
       THEN create_no_page(c)
       ELSE /\ TidsPromised <= cap
            /\ ret' = 0
            /\ UNCHANGED list_vars
            /\ IF ~priority_ok(p)
               THEN /\ panic' = TRUE
                    /\ UNCHANGED <<thread, ready_list, destruction_req,
                                   current, thread_ticks, intr_level, sema,
                                   holder>>
               ELSE LET t == palloc_get_page(pool)
                    IN  sema_down(c, "tid_lock",
                                  [thread EXCEPT ![t] = init_thread(p, "run"),
                                                 ![c].creating = t])
            /\ UNCHANGED next_tid
    /\ UNCHANGED <<waiting_list, idle_thread, ticks, in_intr, yield_on_return>>

\* allocate_tid: the read of next_tid in tid = next_tid++.
AllocateTidRead(c) ==
    /\ ret' = 0
    /\ UNCHANGED list_vars
    /\ Running(c)
    /\ thread[c].pc = "alloc_tid"
    /\ thread' = [thread EXCEPT ![c].tid_local = next_tid, ![c].pc = "tid_incr"]
    /\ UNCHANGED <<ready_list, waiting_list, destruction_req, idle_thread,
                   current, ticks, thread_ticks, intr_level, in_intr,
                   yield_on_return, sema, next_tid, holder, panic>>

\* allocate_tid: the write of next_tid, lock_release(&tid_lock) and, back in
\* thread_create, t->tid = the tid returned.
AllocateTidWrite(c) ==
    /\ ret' = 0
    /\ UNCHANGED list_vars
    /\ Running(c)
    /\ thread[c].pc = "tid_incr"
    /\ next_tid' = tid_next(thread[c].tid_local)
    /\ holder' = [holder EXCEPT !["tid_lock"] = NULL]
    /\ sema_up(c, "tid_lock",
               [thread EXCEPT ![thread[c].creating].tid = thread[c].tid_local,
                              ![c].tid_local = 0],
               "create")
    /\ UNCHANGED <<waiting_list, idle_thread, ticks, in_intr, yield_on_return>>

---------------------------------------------------------------------------
\* The idle thread: idle().

\* idle_thread = thread_current();
IdleSetSelf(c) ==
    /\ ret' = 0
    /\ UNCHANGED list_vars
    /\ Running(c)
    /\ thread[c].pc = "idle_init"
    /\ idle_thread' = c
    /\ thread' = [thread EXCEPT ![c].pc = "idle_up"]
    /\ UNCHANGED <<ready_list, waiting_list, destruction_req, current, ticks,
                   thread_ticks, intr_level, in_intr, yield_on_return, sema,
                   next_tid, holder, panic>>

\* sema_up(idle_started);
IdleSemaUp(c) ==
    /\ ret' = 0
    /\ UNCHANGED list_vars
    /\ Running(c)
    /\ thread[c].pc = "idle_up"
    /\ sema_up(c, "idle_started", thread, "idle_loop")
    /\ UNCHANGED <<waiting_list, idle_thread, ticks, in_intr, yield_on_return,
                   next_tid, holder>>

\* intr_disable(); thread_block(); and, once it has been switched back to,
\* "sti; hlt": the idle thread waits for the next interrupt.
IdleBlock(c) ==
    /\ ret' = 0
    /\ UNCHANGED list_vars
    /\ Running(c)
    /\ thread[c].pc = "idle_loop"
    /\ thread_block([thread EXCEPT ![c].pc = "idle_hlt"], ready_list)
    /\ UNCHANGED <<waiting_list, idle_thread, ticks, in_intr, yield_on_return,
                   sema, next_tid, holder>>

---------------------------------------------------------------------------
\* Timed sleep.

\* Mutant: thread_sleep queues nothing.
sleep_queue_drop(wl, c) == wl

\* Mutant: list_push_front in thread_sleep.
sleep_queue_front(wl, c) == <<c>> \o wl

\* thread_sleep(ticks)'s queueing of the running thread on the sleep set.
sleep_queue(wl, c) == list_push_back(wl, c)

\* thread_sleep(wake): record the wake time, queue, block.
thread_sleep(c, wake, th) ==
    /\ waiting_list' = sleep_queue(waiting_list, c)
    /\ thread_block([th EXCEPT ![c].wakeup_time = wake], ready_list)

\* timer_sleep(n) (devices/timer.c): nothing for n <= 0, else
\* thread_sleep(now + n).
TimerSleep(c, n) ==
    /\ ret' = 0
    /\ UNCHANGED list_vars
    /\ Running(c)
    /\ thread[c].pc = "run"
    /\ intr_level = "ON"
    /\ IF n <= 0
       THEN /\ thread' = thread
            /\ UNCHANGED <<ready_list, waiting_list, destruction_req,
                           current, thread_ticks, intr_level, panic>>
       ELSE thread_sleep(c, ticks + n, thread)
    /\ UNCHANGED <<idle_thread, ticks, in_intr, yield_on_return, sema,
                   next_tid, holder>>

\* Mutant: the test is off by one, early.
wakeup_due_early(t, now) == t.wakeup_time <= now + 1

\* Mutant: the test is strict.
wakeup_due_late(t, now) == t.wakeup_time < now

\* thread_wakeup's test of one sleeper.
wakeup_due(t, now) == t.wakeup_time <= now

\* Mutant: thread_wakeup's scan stops at the first sleeper that is not due.
RECURSIVE wakeup_woken_front(_, _, _)
wakeup_woken_front(wl, th, now) ==
    IF wl # <<>> /\ wakeup_due(th[Head(wl)], now)
    THEN <<Head(wl)>> \o wakeup_woken_front(Tail(wl), th, now)
    ELSE <<>>

\* thread_wakeup(now): the sleepers it unblocks, in the order of its scan.
wakeup_woken(wl, th, now) == SelectSeq(wl, LAMBDA t : wakeup_due(th[t], now))

\* Mutant: thread_wakeup without its list_remove.
wakeup_left_keep(wl, th, now) == wl

\* thread_wakeup(now): the sleepers it leaves on the sleep set.
wakeup_left(wl, th, now) == SelectSeq(wl, LAMBDA t : ~wakeup_due(th[t], now))

\* The tick counter is 64 bits wide and only ever compared with wake times,
\* so the model keeps both relative to an origin that moves up by MaxTicks
\* whenever the counter reaches MaxTicks.  Wake times that have passed are
\* dead values and stay at the origin.
Shift(now) == IF now >= MaxTicks THEN MaxTicks ELSE 0
Rebase(w, shift) == IF w > shift THEN w - shift ELSE 0

\* thread_tick(): the preemption test.
\* Mutant: the slice is one tick longer.
slice_expired_late(tt) == tt > TIME_SLICE

\* thread_tick: if (++thread_ticks >= TIME_SLICE) intr_yield_on_return();
slice_expired(tt) == tt >= TIME_SLICE

\* timer_interrupt (devices/timer.c): ticks++; thread_tick();
\* thread_wakeup(ticks).  The handler runs with interrupts off.
TimerInterrupt ==
    /\ ret' = 0
    /\ UNCHANGED list_vars
    /\ ~panic
    /\ intr_level = "ON"
    /\ ~in_intr
    /\ LET now == ticks + 1
           tt == thread_ticks + 1
           woken == wakeup_woken(waiting_list, thread, now)
           th1 == [t \in Threads |->
                      IF t \in Range(woken)
                      THEN [thread[t] EXCEPT !.status = "READY"]
                      ELSE thread[t]]
           \* hlt ends with the interrupt
           th2 == IF thread[current].pc = "idle_hlt"
                  THEN [th1 EXCEPT ![current].pc = "idle_loop"]
                  ELSE th1
       IN  /\ ticks' = now - Shift(now)
           /\ thread_ticks' = tt
           /\ yield_on_return' = slice_expired(tt)
           /\ waiting_list' = wakeup_left(waiting_list, thread, now)
           /\ ready_list' = ready_list \o woken
           /\ panic' = \E t \in Range(woken) : ~unblock_ok(thread[t])
           /\ thread' = [t \in Threads |->
                            [th2[t] EXCEPT !.wakeup_time = Rebase(@, Shift(now))]]
    /\ intr_level' = "OFF"
    /\ in_intr' = TRUE
    /\ UNCHANGED <<destruction_req, idle_thread, current, sema, next_tid,
                   holder>>

\* The end of the interrupt: thread_yield() if intr_yield_on_return() was
\* called, then the return to the interrupted thread.
IntrReturn ==
    /\ ret' = 0
    /\ UNCHANGED list_vars
    /\ ~panic
    /\ in_intr
    /\ in_intr' = FALSE
    /\ yield_on_return' = FALSE
    /\ IF yield_on_return
       THEN thread_yield(thread, ready_list)
       ELSE /\ intr_level' = "ON"
            /\ UNCHANGED <<thread, ready_list, destruction_req, current,
                           thread_ticks, panic>>
    /\ UNCHANGED <<waiting_list, idle_thread, ticks, sema, next_tid, holder>>

---------------------------------------------------------------------------
\* System calls (userprog/syscall.c), made by a running thread c with
\* interrupts on.  A kernel service (filesystem, process_exec, process_fork)
\* is entered in one step and left in a later one.

\* A user pointer is null, at or above KERN_BASE, below it and not mapped in
\* the caller's page table, or below it and mapped.
UserPointers == {"null", "kernel", "unmapped", "mapped"}

\* What a file descriptor argument names.
Fds == {"stdin", "stdout", "file", "closed"}

\* The system calls of syscall_handler that do more than return.
Calls == {"create", "remove", "open", "close", "read", "write", "exec", "fork"}

is_user_vaddr(addr) == addr # "kernel"
pml4_get_page(addr) == IF addr = "mapped" THEN "page" ELSE "null"

\* check_address(addr) returns, that is, it does not call sys_exit(-1).
check_address(addr) ==
    /\ addr # "null"
    /\ is_user_vaddr(addr)
    /\ pml4_get_page(addr) # "null"

\* sys_exit(status): t->exit_status = status; thread_exit().
sys_exit(c, status) ==
    /\ do_schedule("DYING", [thread EXCEPT ![c].pc = "dying",
                                           ![c].exit_status = status,
                                           ![c].sys = NoCall],
                   ready_list)
    /\ UNCHANGED <<sema, holder>>

\* The call goes into the service svc and is at pc until the service returns.
enter_service(c, n, addr, svc, pc) ==
    /\ thread' = [thread EXCEPT ![c].sys = [NoCall EXCEPT !.n = n,
                                                          !.uptr = addr,
                                                          !.svc = svc],
                                ![c].pc = pc]
    /\ UNCHANGED <<ready_list, destruction_req, current, thread_ticks,
                   intr_level, sema, holder, panic>>

\* The call returns to the user program without having entered a service.
sys_return(c) ==
    UNCHANGED <<thread, ready_list, destruction_req, current, thread_ticks,
                intr_level, sema, holder, panic>>

\* lock_acquire(&filesys_lock), the call being n with pointer addr.
filesys_acquire(c, n, addr) ==
    sema_down(c, "filesys_lock",
              [thread EXCEPT ![c].sys = [NoCall EXCEPT !.n = n, !.uptr = addr]])

\* A user process c, which is not the bootstrap thread, is in user code and
\* makes a system call.
UserCall(c) ==
    /\ Running(c)
    /\ c # initial_thread
    /\ thread[c].pc = "run"
    /\ intr_level = "ON"

\* sys_create, sys_remove, sys_open: check_address(file), then the filesystem.
SysPath(c, n, addr) ==
    /\ ret' = 0
    /\ UNCHANGED list_vars
    /\ UserCall(c)
    /\ n \in {"create", "remove", "open"}
    /\ IF ~check_address(addr)
       THEN sys_exit(c, -1)
       ELSE enter_service(c, n, addr, "filesys_" \o n, "sys_fs")
    /\ UNCHANGED <<waiting_list, idle_thread, ticks, in_intr, yield_on_return,
                   next_tid>>

\* close: file_close(process_get_file(fd)).
SysClose(c) ==
    /\ ret' = 0
    /\ UNCHANGED list_vars
    /\ UserCall(c)
    /\ enter_service(c, "close", "none", "file_close", "sys_fs")
    /\ UNCHANGED <<waiting_list, idle_thread, ticks, in_intr, yield_on_return,
                   next_tid>>

\* The filesystem returns to sys_create, sys_remove, sys_open or close, which
\* return; sys_open calls file_close when process_add_file has no room.
SysFsReturn(c, room) ==
    /\ ret' = 0
    /\ UNCHANGED list_vars
    /\ Running(c)
    /\ thread[c].pc = "sys_fs"
    /\ thread' = IF thread[c].sys.svc = "filesys_open" /\ ~room
                 THEN [thread EXCEPT ![c].sys.svc = "file_close"]
                 ELSE [thread EXCEPT ![c].sys = NoCall, ![c].pc = "run"]
    /\ UNCHANGED <<ready_list, waiting_list, destruction_req, idle_thread,
                   current, ticks, thread_ticks, intr_level, in_intr,
                   yield_on_return, sema, next_tid, holder, panic>>

\* write(fd, buffer, size): check_address(buffer); the console for
\* STDOUT_FILENO, -1 for STDIN_FILENO and for a descriptor that is not open,
\* else lock_acquire(&filesys_lock).
SysWrite(c, fd, addr) ==
    /\ ret' = 0
    /\ UNCHANGED list_vars
    /\ UserCall(c)
    /\ IF ~check_address(addr)
       THEN sys_exit(c, -1)
       ELSE IF fd = "file"
            THEN filesys_acquire(c, "write", addr)
            ELSE sys_return(c)
    /\ UNCHANGED <<waiting_list, idle_thread, ticks, in_intr, yield_on_return,
                   next_tid>>

\* sys_read(fd, buffer, size): check_address(buffer) and
\* check_address(buffer + size - 1); -1 for a descriptor that is not open and
\* for STDOUT_FILENO, the keyboard for STDIN_FILENO, else
\* lock_acquire(&filesys_lock).
SysRead(c, fd, addr, last) ==
    /\ ret' = 0
    /\ UNCHANGED list_vars
    /\ UserCall(c)
    /\ IF ~check_address(addr) \/ ~check_address(last)
       THEN sys_exit(c, -1)
       ELSE IF fd = "file"
            THEN filesys_acquire(c, "read", addr)
            ELSE sys_return(c)
    /\ UNCHANGED <<waiting_list, idle_thread, ticks, in_intr, yield_on_return,
                   next_tid>>

\* With filesys_lock held: file_read or file_write is entered.
SysFile(c) ==
    /\ ret' = 0
    /\ UNCHANGED list_vars
    /\ Running(c)
    /\ thread[c].pc = "sys_locked"
    /\ thread' = [thread EXCEPT ![c].sys.svc = "file_" \o thread[c].sys.n,
                                ![c].pc = "sys_file"]
    /\ UNCHANGED <<ready_list, waiting_list, destruction_req, idle_thread,
                   current, ticks, thread_ticks, intr_level, in_intr,
                   yield_on_return, sema, next_tid, holder, panic>>

\* file_read or file_write returns: lock_release(&filesys_lock), return.
SysFileReturn(c) ==
    /\ ret' = 0
    /\ UNCHANGED list_vars
    /\ Running(c)
    /\ thread[c].pc = "sys_file"
    /\ holder' = [holder EXCEPT !["filesys_lock"] = NULL]
    /\ sema_up(c, "filesys_lock", [thread EXCEPT ![c].sys = NoCall], "run")
    /\ UNCHANGED <<waiting_list, idle_thread, ticks, in_intr, yield_on_return,
                   next_tid>>

\* exec(cmd_line): check_address(cmd_line); palloc_get_page(0), sys_exit(-1)
\* when there is no page (page = FALSE); strlcpy; the first process_exec.
SysExec(c, addr, page) ==
    /\ ret' = 0
    /\ UNCHANGED list_vars
    /\ UserCall(c)
    /\ IF ~check_address(addr) \/ ~page
       THEN sys_exit(c, -1)
       ELSE /\ thread' = [thread EXCEPT
                             ![c].sys = [n |-> "exec", uptr |-> addr,
                                         svc |-> "process_exec",
                                         copy |-> "allocated", execs |-> 1],
                             ![c].pc = "exec_first"]
            /\ UNCHANGED <<ready_list, destruction_req, current, thread_ticks,
                           intr_level, sema, holder, panic>>
    /\ UNCHANGED <<waiting_list, idle_thread, ticks, in_intr, yield_on_return,
                   next_tid>>

\* The first process_exec ends.  Loaded: it does not return, the thread runs
\* the new program.  Not loaded: it returns -1, which exec drops;
\* palloc_free_page(cmd_line_copy); process_exec(cmd_line_copy) again.
SysExecFirst(c, loaded) ==
    /\ ret' = 0
    /\ UNCHANGED list_vars
    /\ Running(c)
    /\ thread[c].pc = "exec_first"
    /\ thread' = IF loaded
                 THEN [thread EXCEPT ![c].sys = NoCall, ![c].pc = "run"]
                 ELSE [thread EXCEPT ![c].sys.copy = "freed",
                                     ![c].sys.execs = @ + 1,
                                     ![c].pc = "exec_second"]
    /\ UNCHANGED <<ready_list, waiting_list, destruction_req, idle_thread,
                   current, ticks, thread_ticks, intr_level, in_intr,
                   yield_on_return, sema, next_tid, holder, panic>>

\* The second process_exec ends: the new program, or sys_exit(-1) on -1.
SysExecSecond(c, loaded) ==
    /\ ret' = 0
    /\ UNCHANGED list_vars
    /\ Running(c)
    /\ thread[c].pc = "exec_second"
    /\ IF loaded
       THEN /\ thread' = [thread EXCEPT ![c].sys = NoCall, ![c].pc = "run"]
            /\ UNCHANGED <<ready_list, destruction_req, current, thread_ticks,
                           intr_level, sema, holder, panic>>
       ELSE sys_exit(c, -1)
    /\ UNCHANGED <<waiting_list, idle_thread, ticks, in_intr, yield_on_return,
                   next_tid>>

\* fork(thread_name, f): process_fork(thread_name, f).
SysFork(c, addr) ==
    /\ ret' = 0
    /\ UNCHANGED list_vars
    /\ UserCall(c)
    /\ enter_service(c, "fork", addr, "process_fork", "sys_fork")
    /\ UNCHANGED <<waiting_list, idle_thread, ticks, in_intr, yield_on_return,
                   next_tid>>

\* process_fork returns.
SysForkReturn(c) ==
    /\ ret' = 0
    /\ UNCHANGED list_vars
    /\ Running(c)
    /\ thread[c].pc = "sys_fork"
    /\ thread' = [thread EXCEPT ![c].sys = NoCall, ![c].pc = "run"]
    /\ UNCHANGED <<ready_list, waiting_list, destruction_req, idle_thread,
                   current, ticks, thread_ticks, intr_level, in_intr,
                   yield_on_return, sema, next_tid, holder, panic>>

---------------------------------------------------------------------------
\* thread_unblock(t) called directly by a running thread c, on any thread t
\* that is not BLOCKED, or that is BLOCKED with its link node on no list and
\* no thread_create about to unblock it (list_push_back of a node that is, or
\* is then put, on another list leaves both lists broken).
OnAnyList(t) ==
    \/ t \in Range(ready_list) \/ t \in Range(waiting_list)
    \/ t \in Range(destruction_req)
    \/ \E s \in Semas : t \in Range(sema[s].waiters)

Unblock(c, t) ==
    /\ ret' = 0
    /\ UNCHANGED list_vars
    /\ Running(c)
    /\ thread[c].pc = "run"
    /\ intr_level = "ON"
    /\ thread[t].status # "NONE"
    /\ \/ thread[t].status # "BLOCKED"
       \/ ~OnAnyList(t) /\ \A d \in Threads : thread[d].creating # t
    /\ IF ~unblock_ok(thread[t])
       THEN /\ panic' = TRUE
            /\ UNCHANGED <<thread, ready_list>>
       ELSE /\ thread' = unblock_status(thread, t)
            /\ ready_list' = unblock_queue(ready_list, t)
            /\ UNCHANGED panic
    /\ UNCHANGED <<waiting_list, destruction_req, idle_thread, current, ticks,
                   thread_ticks, intr_level, in_intr, yield_on_return, sema,
                   next_tid, holder>>

---------------------------------------------------------------------------
Next ==
    \/ BootCreateIdle
    \/ BootEnable
    \/ BootSemaDown
    \/ \E c \in Threads : CreateFinish(c)
    \/ \E c \in Threads, p \in Priorities : CreateBegin(c, p, MaxUser, MaxTid)
    \/ \E c \in Threads : AllocateTidRead(c)
    \/ \E c \in Threads : AllocateTidWrite(c)
    \/ \E c \in Threads : Yield(c)
    \/ \E c \in Threads : Exit(c)
    \/ \E c \in Threads, p \in Priorities : SetPriority(c, p)
    \/ \E c \in Threads : SemaRetry(c)
    \/ \E c \in Threads : SemaYield(c)
    \/ \E c \in Threads : IdleSetSelf(c)
    \/ \E c \in Threads : IdleSemaUp(c)
    \/ \E c \in Threads : IdleBlock(c)
    \/ \E c \in Threads, n \in 0 .. MaxSleep : TimerSleep(c, n)
    \/ TimerInterrupt
    \/ IntrReturn

Spec == Init /\ [][Next]_vars

\* The kernel with, in addition, direct calls of thread_unblock.
UnblockNext ==
    \/ Next
    \/ \E c \in Threads, t \in Threads : Unblock(c, t)

UnblockSpec == Init /\ [][UnblockNext]_vars

\* The kernel with one more page and one more tid, so that two thread_create
\* calls can be under way at once, and without timer_sleep and
\* thread_set_priority, which thread_create and allocate_tid do not involve.
TidNext ==
    \/ BootCreateIdle
    \/ BootEnable
    \/ BootSemaDown
    \/ \E c \in Threads : CreateFinish(c)
    \/ \E c \in Threads, p \in Priorities :
           CreateBegin(c, p, MaxUser + 1, MaxTid + 1)
    \/ \E c \in Threads : AllocateTidRead(c)
    \/ \E c \in Threads : AllocateTidWrite(c)
    \/ \E c \in Threads : Yield(c)
    \/ \E c \in Threads : Exit(c)
    \/ \E c \in Threads : SemaRetry(c)
    \/ \E c \in Threads : SemaYield(c)
    \/ \E c \in Threads : IdleSetSelf(c)
    \/ \E c \in Threads : IdleSemaUp(c)
    \/ \E c \in Threads : IdleBlock(c)
    \/ TimerInterrupt
    \/ IntrReturn

TidSpec == Init /\ [][TidNext]_vars

\* The kernel whose threads call thread_create and thread_set_priority with
\* any integer.
PriorityNext ==
    \/ BootCreateIdle
    \/ BootEnable
    \/ BootSemaDown
    \/ \E c \in Threads : CreateFinish(c)
    \/ \E c \in Threads, p \in AnyPriority : CreateBegin(c, p, MaxUser, MaxTid)
    \/ \E c \in Threads : AllocateTidRead(c)
    \/ \E c \in Threads : AllocateTidWrite(c)
    \/ \E c \in Threads : Yield(c)
    \/ \E c \in Threads : Exit(c)
    \/ \E c \in Threads, p \in AnyPriority : SetPriority(c, p)
    \/ \E c \in Threads : SemaRetry(c)
    \/ \E c \in Threads : SemaYield(c)
    \/ \E c \in Threads : IdleSetSelf(c)
    \/ \E c \in Threads : IdleSemaUp(c)
    \/ \E c \in Threads : IdleBlock(c)
    \/ \E c \in Threads, n \in 0 .. MaxSleep : TimerSleep(c, n)
    \/ TimerInterrupt
    \/ IntrReturn

PrioritySpec == Init /\ [][PriorityNext]_vars

\* The kernel whose threads make system calls: thread creation and exit, the
\* timer and the system calls.
SyscallNext ==
    \/ BootCreateIdle
    \/ BootEnable
    \/ BootSemaDown
    \/ \E c \in Threads : CreateFinish(c)
    \/ \E c \in Threads : CreateBegin(c, PRI_DEFAULT, MaxUser, MaxTid)
    \/ \E c \in Threads : AllocateTidRead(c)
    \/ \E c \in Threads : AllocateTidWrite(c)
    \/ \E c \in Threads : Exit(c)
    \/ \E c \in Threads : SemaRetry(c)
    \/ \E c \in Threads : SemaYield(c)
    \/ \E c \in Threads : IdleSetSelf(c)
    \/ \E c \in Threads : IdleSemaUp(c)
    \/ \E c \in Threads : IdleBlock(c)
    \/ TimerInterrupt
    \/ IntrReturn
    \/ \E c \in Threads, n \in Calls, a \in UserPointers : SysPath(c, n, a)
    \/ \E c \in Threads : SysClose(c)
    \/ \E c \in Threads, room \in BOOLEAN : SysFsReturn(c, room)
    \/ \E c \in Threads, fd \in Fds, a \in UserPointers : SysWrite(c, fd, a)
    \/ \E c \in Threads, fd \in Fds, a \in UserPointers, l \in UserPointers :
           SysRead(c, fd, a, l)
    \/ \E c \in Threads : SysFile(c)
    \/ \E c \in Threads : SysFileReturn(c)
    \/ \E c \in Threads, a \in UserPointers, page \in BOOLEAN :
           SysExec(c, a, page)
    \/ \E c \in Threads, loaded \in BOOLEAN : SysExecFirst(c, loaded)
    \/ \E c \in Threads, loaded \in BOOLEAN : SysExecSecond(c, loaded)
    \/ \E c \in Threads, a \in UserPointers : SysFork(c, a)
    \/ \E c \in Threads : SysForkReturn(c)

SyscallSpec == Init /\ [][SyscallNext]_vars

---------------------------------------------------------------------------
\* The functions of thread.c that update a queue, each in two steps: its
\* intr_disable (), then the rest of it, which runs at the interrupt level
\* that the first step has left.  The timer interrupt is taken wherever the
\* level is "ON".

\* Mutant: intr_disable leaves the interrupt flag as it is.
intr_disable_nop == intr_level

\* intr_disable (): the interrupt flag afterwards.
intr_disable == "OFF"

\* The running thread c enters the function it calls at pc from, as far as
\* behind that function's intr_disable ().
IntrDisable(c, from, to) ==
    /\ ret' = 0
    /\ UNCHANGED list_vars
    /\ Running(c)
    /\ thread[c].pc = from
    /\ intr_level = "ON"
    /\ intr_level' = intr_disable
    /\ thread' = [thread EXCEPT ![c].pc = to]
    /\ UNCHANGED <<ready_list, waiting_list, destruction_req, idle_thread,
                   current, ticks, thread_ticks, in_intr, yield_on_return,
                   sema, next_tid, holder, panic>>

\* The position of a thread between a function's intr_disable () and its
\* queue update.
OffSections ==
    {"thread_yield", "thread_exit", "thread_sleep", "thread_unblock",
     "idle_block"}

\* thread_yield () behind its intr_disable ().
YieldOff(c) ==
    /\ ret' = 0
    /\ UNCHANGED list_vars
    /\ Running(c)
    /\ thread[c].pc = "thread_yield"
    /\ thread_yield([thread EXCEPT ![c].pc = "run"], ready_list)
    /\ UNCHANGED <<waiting_list, idle_thread, ticks, in_intr, yield_on_return,
                   sema, next_tid, holder>>

\* thread_exit () behind its intr_disable ().
ExitOff(c) ==
    /\ ret' = 0
    /\ UNCHANGED list_vars
    /\ Running(c)
    /\ thread[c].pc = "thread_exit"
    /\ do_schedule("DYING", [thread EXCEPT ![c].pc = "dying"], ready_list)
    /\ UNCHANGED <<waiting_list, idle_thread, ticks, in_intr, yield_on_return,
                   sema, next_tid, holder>>

\* thread_sleep (now + n) behind its intr_disable ().
SleepOff(c, n) ==
    /\ ret' = 0
    /\ UNCHANGED list_vars
    /\ Running(c)
    /\ thread[c].pc = "thread_sleep"
    /\ thread_sleep(c, ticks + n, [thread EXCEPT ![c].pc = "run"])
    /\ UNCHANGED <<idle_thread, ticks, in_intr, yield_on_return, sema,
                   next_tid, holder>>

\* thread_create's thread_unblock (t) behind its intr_disable (), up to its
\* intr_set_level (old_level) and the return of the tid.
CreateUnblockOff(c) ==
    /\ Running(c)
    /\ thread[c].pc = "thread_unblock"
    /\ LET t == thread[c].creating
       IN  IF ~unblock_ok(thread[t])
           THEN /\ panic' = TRUE
                /\ ret' = 0
                /\ UNCHANGED list_vars
                /\ UNCHANGED <<thread, ready_list, intr_level>>
           ELSE /\ thread' = [unblock_status(thread, t) EXCEPT
                                 ![c].creating = NULL, ![c].pc = "run"]
                /\ ready_list' = unblock_queue(ready_list, t)
                /\ intr_level' = "ON"
                /\ ret' = thread[t].tid
                /\ UNCHANGED list_vars
                /\ UNCHANGED panic
    /\ UNCHANGED <<waiting_list, destruction_req, idle_thread, current, ticks,
                   thread_ticks, in_intr, yield_on_return, sema, next_tid,
                   holder>>

\* idle's thread_block () behind its intr_disable ().
IdleBlockOff(c) ==
    /\ ret' = 0
    /\ UNCHANGED list_vars
    /\ Running(c)
    /\ thread[c].pc = "idle_block"
    /\ thread_block([thread EXCEPT ![c].pc = "idle_hlt"], ready_list)
    /\ UNCHANGED <<waiting_list, idle_thread, ticks, in_intr, yield_on_return,
                   sema, next_tid, holder>>

\* thread_start's thread_create, which runs with interrupts still off.
BootCreateFinish ==
    /\ thread[initial_thread].pc = "boot_create"
    /\ CreateFinish(initial_thread)

IntrNext ==
    \/ BootCreateIdle
    \/ BootCreateFinish
    \/ BootEnable
    \/ BootSemaDown
    \/ \E c \in Threads : CreateBegin(c, PRI_DEFAULT, MaxUser, MaxTid)
    \/ \E c \in Threads : AllocateTidRead(c)
    \/ \E c \in Threads : AllocateTidWrite(c)
    \/ \E c \in Threads : IntrDisable(c, "create", "thread_unblock")
    \/ \E c \in Threads : CreateUnblockOff(c)
    \/ \E c \in Threads : IntrDisable(c, "run", "thread_yield")
    \/ \E c \in Threads : YieldOff(c)
    \/ \E c \in Threads : IntrDisable(c, "run", "thread_exit")
    \/ \E c \in Threads : ExitOff(c)
    \/ \E c \in Threads : IntrDisable(c, "run", "thread_sleep")
    \/ \E c \in Threads, n \in 1 .. MaxSleep : SleepOff(c, n)
    \/ \E c \in Threads : SemaRetry(c)
    \/ \E c \in Threads : SemaYield(c)
    \/ \E c \in Threads : IdleSetSelf(c)
    \/ \E c \in Threads : IdleSemaUp(c)
    \/ \E c \in Threads : IntrDisable(c, "idle_loop", "idle_block")
    \/ \E c \in Threads : IdleBlockOff(c)
    \/ TimerInterrupt
    \/ IntrReturn

IntrSpec == Init /\ [][IntrNext]_vars

\* list_insert (before, elem): elem is linked just in front of before.
list_insert(l, before, elem) ==
    SubSeq(l, 1, before - 1) \o <<elem>> \o SubSeq(l, before, Len(l))

\* Mutant: list_insert_ordered stops at the first element not less than elem.
insert_before_tie(aux, elem, e) == ~less(aux, e, elem)

\* list_insert_ordered: if (less (elem, e, aux)) break;
insert_before(aux, elem, e) == less(aux, elem, e)

\* list_insert_ordered's scan from e on: where the loop ends.
RECURSIVE insert_scan(_, _, _, _)
insert_scan(l, aux, elem, e) ==
    IF e # list_end(l) /\ ~insert_before(aux, elem, l[e])
    THEN insert_scan(l, aux, elem, e + 1)
    ELSE e

list_insert_ordered(l, aux, elem) ==
    list_insert(l, insert_scan(l, aux, elem, 1), elem)

\* list_insert_ordered (&sort_list, elem, less, sort_aux), for an element
\* that is on no list.
ListInsertOrdered(elem) ==
    /\ ~panic
    /\ elem \notin Range(sort_list)
    /\ sort_input' = [called |-> FALSE, inserted |-> elem, list |-> sort_list]
    /\ sort_list' = list_insert_ordered(sort_list, sort_aux, elem)
    /\ UNCHANGED <<thread, ready_list, waiting_list, destruction_req,
                   idle_thread, current, ticks, thread_ticks, intr_level,
                   in_intr, yield_on_return, sema, next_tid, holder, ret,
                   panic, sort_aux>>

---------------------------------------------------------------------------
\* thread_yield, thread_sleep and thread_unblock called with interrupts on or
\* off.  old_level is the function's local variable; call_level records the
\* interrupt level at which the function was entered.  A thread that is
\* switched from inside thread_yield or thread_sleep continues there, with
\* interrupts off, when it is switched to.

\* Mutant: intr_enable () in place of intr_set_level (old_level).
intr_set_level_on(level) == "ON"

\* intr_set_level (level): the interrupt flag afterwards.
intr_set_level(level) == level

\* The caller's own intr_disable ().
CallerDisable(c) ==
    /\ ret' = 0
    /\ UNCHANGED list_vars
    /\ Running(c)
    /\ thread[c].pc = "run"
    /\ intr_level = "ON"
    /\ intr_level' = intr_disable
    /\ UNCHANGED <<thread, ready_list, waiting_list, destruction_req,
                   idle_thread, current, ticks, thread_ticks, in_intr,
                   yield_on_return, sema, next_tid, holder, panic>>

\* The caller's own intr_enable ().
CallerEnable(c) ==
    /\ ret' = 0
    /\ UNCHANGED list_vars
    /\ Running(c)
    /\ thread[c].pc = "run"
    /\ intr_level = "OFF"
    /\ intr_level' = "ON"
    /\ UNCHANGED <<thread, ready_list, waiting_list, destruction_req,
                   idle_thread, current, ticks, thread_ticks, in_intr,
                   yield_on_return, sema, next_tid, holder, panic>>

\* thread_yield (): old_level = intr_disable (), the queueing and
\* do_schedule (THREAD_READY).
YieldCall(c) ==
    /\ ret' = 0
    /\ UNCHANGED list_vars
    /\ Running(c)
    /\ thread[c].pc = "run"
    /\ thread_yield([thread EXCEPT ![c].pc = "yield_return",
                                   ![c].old_level = intr_level,
                                   ![c].call_level = intr_level],
                    ready_list)
    /\ UNCHANGED <<waiting_list, idle_thread, ticks, in_intr, yield_on_return,
                   sema, next_tid, holder>>

\* thread_sleep (now + n): old_level = intr_disable (), the queueing and
\* thread_block ().
SleepCall(c, n) ==
    /\ ret' = 0
    /\ UNCHANGED list_vars
    /\ Running(c)
    /\ thread[c].pc = "run"
    /\ thread_sleep(c, ticks + n,
                    [thread EXCEPT ![c].pc = "sleep_return",
                                   ![c].old_level = intr_level,
                                   ![c].call_level = intr_level])
    /\ UNCHANGED <<idle_thread, ticks, in_intr, yield_on_return, sema,
                   next_tid, holder>>

\* The end of thread_yield and of thread_sleep, in the thread that has been
\* switched to again: intr_set_level (old_level).
LevelReturn(c) ==
    /\ ret' = 0
    /\ UNCHANGED list_vars
    /\ Running(c)
    /\ thread[c].pc \in {"yield_return", "sleep_return"}
    /\ intr_level' = intr_set_level(thread[c].old_level)
    /\ thread' = [thread EXCEPT ![c].pc = "run",
                                ![c].old_level = "none",
                                ![c].call_level = "none"]
    /\ UNCHANGED <<ready_list, waiting_list, destruction_req, idle_thread,
                   current, ticks, thread_ticks, in_intr, yield_on_return,
                   sema, next_tid, holder, panic>>

\* thread_create's thread_unblock (t), from old_level = intr_disable () to
\* intr_set_level (old_level), and the return of the tid; thread_start calls
\* it with interrupts off, every other thread with interrupts on.
CreateUnblock(c) ==
    /\ Running(c)
    /\ thread[c].pc \in {"create", "boot_create"}
    /\ LET t == thread[c].creating
           after == IF thread[c].pc = "create" THEN "run" ELSE "boot_enable"
       IN  IF ~unblock_ok(thread[t])
           THEN /\ panic' = TRUE
                /\ ret' = 0
                /\ UNCHANGED list_vars
                /\ UNCHANGED <<thread, ready_list, intr_level>>
           ELSE /\ thread' = [unblock_status(thread, t) EXCEPT
                                 ![c].creating = NULL, ![c].pc = after]
                /\ ready_list' = unblock_queue(ready_list, t)
                /\ intr_level' = intr_set_level(intr_level)
                /\ ret' = thread[t].tid
                /\ UNCHANGED list_vars
                /\ UNCHANGED panic
    /\ UNCHANGED <<waiting_list, destruction_req, idle_thread, current, ticks,
                   thread_ticks, in_intr, yield_on_return, sema, next_tid,
                   holder>>

LevelNext ==
    \/ BootCreateIdle
    \/ BootEnable
    \/ BootSemaDown
    \/ \E c \in Threads : CreateBegin(c, PRI_DEFAULT, MaxUser, MaxTid)
    \/ \E c \in Threads : AllocateTidRead(c)
    \/ \E c \in Threads : AllocateTidWrite(c)
    \/ \E c \in Threads : CreateUnblock(c)
    \/ \E c \in Threads : CallerDisable(c)
    \/ \E c \in Threads : CallerEnable(c)
    \/ \E c \in Threads : YieldCall(c)
    \/ \E c \in Threads, n \in 1 .. MaxSleep : SleepCall(c, n)
    \/ \E c \in Threads : LevelReturn(c)
    \/ \E c \in Threads : Exit(c)
    \/ \E c \in Threads : SemaRetry(c)
    \/ \E c \in Threads : SemaYield(c)
    \/ \E c \in Threads : IdleSetSelf(c)
    \/ \E c \in Threads : IdleSemaUp(c)
    \/ \E c \in Threads : IdleBlock(c)
    \/ TimerInterrupt
    \/ IntrReturn

LevelSpec == Init /\ [][LevelNext]_vars

\* list_sort alone, on every list and every comparator within the bounds.
SortInit ==
    /\ BootInit
    /\ sort_list \in Lists
    /\ sort_aux \in [Elems -> Ranks]
    /\ sort_input = NoSort

SortNext ==
    \/ ListSort
    \/ \E elem \in Elems : ListInsertOrdered(elem)

SortSpec == SortInit /\ [][SortNext]_vars

TypeOK ==
    /\ current \in Threads
    /\ thread_ticks \in 0 .. TIME_SLICE
    /\ ticks \in 0 .. (MaxTicks - 1)
    /\ \A t \in Threads : thread[t].wakeup_time \in 0 .. (MaxTicks + MaxSleep)
    /\ next_tid \in 2 .. (MaxTid + 2)
    /\ \A t \in Threads : thread[t].tid \in 0 .. (MaxTid + 1)
    /\ \A s \in Semas : sema[s].value \in {0, 1}
    /\ ret \in {TID_ERROR} \cup (0 .. (MaxTid + 1))

---------------------------------------------------------------------------
\* Vocabulary of the properties.

OnSomeWaitSet(t) == \E s \in Semas : t \in Range(sema[s].waiters)

\* t is being built by a thread_create that has not yet called thread_unblock.
UnderConstruction(t) == \E c \in Threads : thread[c].creating = t

\* Interrupts are on: the CPU is outside every interrupts-off section.
OutsideCritical == intr_level = "ON"

---------------------------------------------------------------------------
\* C1: every time schedule() takes a thread off a non-empty ready queue, the
\* thread it dispatches has the maximum priority among the threads that were
\* READY at that moment (the dispatched one and those left on the queue).
C1_DispatchesMaxPriority ==
    [][(current' \in Range(ready_list) /\ current' \notin Range(ready_list'))
         => \A t \in Range(ready_list') :
               thread'[current'].priority >= thread'[t].priority]_vars

\* C2: with interrupts on, exactly one thread is RUNNING, it is the thread on
\* the CPU, and it is on none of ready_list, waiting_list, destruction_req.
C2_OneRunningOffQueues ==
    OutsideCritical =>
        /\ {t \in Threads : thread[t].status = "RUNNING"} = {current}
        /\ current \notin Range(ready_list)
        /\ current \notin Range(waiting_list)
        /\ current \notin Range(destruction_req)

\* C2 witness: interrupts are on after a context switch away from main, with
\* threads queued on the ready queue and on the sleep set.
C2_Witness ==
    /\ OutsideCritical
    /\ current # initial_thread
    /\ ready_list # <<>>
    /\ waiting_list # <<>>

\* C3 as claimed: outside a critical section every thread, the idle thread
\* included, is READY exactly when it is on the ready queue.
C3_ReadyIffQueuedAll ==
    OutsideCritical =>
        \A t \in Threads :
            thread[t].status = "READY" <=> t \in Range(ready_list)

\* C3 amended: outside a critical section every thread other than the idle
\* thread is READY exactly when it is on the ready queue.
C3_ReadyIffQueued ==
    OutsideCritical =>
        \A t \in Threads \ {idle_thread} :
            thread[t].status = "READY" <=> t \in Range(ready_list)

\* C3 witness: a thread that yielded or was preempted is READY on a queue
\* that holds another thread too.
C3_Witness ==
    /\ OutsideCritical
    /\ Len(ready_list) >= 2
    /\ current \notin {initial_thread, idle_thread}
    /\ thread[initial_thread].status = "READY"

\* C4 as claimed: outside a critical section every thread, the idle thread
\* included, is BLOCKED exactly when it is on a semaphore's wait set or on
\* the sleep set.
C4_BlockedIffWaitingAll ==
    OutsideCritical =>
        \A t \in Threads :
            thread[t].status = "BLOCKED"
                <=> (OnSomeWaitSet(t) \/ t \in Range(waiting_list))

\* C4 amended: the same for every thread other than the idle thread and other
\* than a thread that thread_create is still building.
C4_BlockedIffWaiting ==
    OutsideCritical =>
        \A t \in Threads \ {idle_thread} :
            ~UnderConstruction(t) =>
                (thread[t].status = "BLOCKED"
                    <=> (OnSomeWaitSet(t) \/ t \in Range(waiting_list)))

\* C4 witness: one thread sleeps while another one runs.
C4_Witness ==
    /\ OutsideCritical
    /\ \E t \in Range(waiting_list) : thread[t].status = "BLOCKED"
    /\ thread[current].pc = "run"

---------------------------------------------------------------------------
\* Timed sleep: C5, C6, C7.

\* The step is a run of the timer interrupt handler (it calls thread_wakeup).
TickStep == ~in_intr /\ in_intr'

\* The tick count, in the frame of the state before the step, that the
\* step's thread_wakeup call (if any) has seen.
NowAfter == IF TickStep THEN ticks + 1 ELSE ticks

Asleep(t) == t \in Range(waiting_list)

\* C5: a sleeper is BLOCKED on the sleep set with its wake time still ahead,
\* and no step takes it off the sleep set, readies or runs it unless the step
\* is a thread_wakeup(now) with now >= its wake time.
C5_NoEarlyWake ==
    /\ [](\A t \in Threads :
             Asleep(t) => /\ thread[t].status = "BLOCKED"
                          /\ thread[t].wakeup_time > ticks)
    /\ [][\A t \in Threads :
             (Asleep(t) /\ thread[t].wakeup_time > NowAfter)
                 => /\ t \in Range(waiting_list')
                    /\ thread'[t].status = "BLOCKED"
                    /\ t \notin Range(ready_list')
                    /\ current' # t]_vars

\* C5 witness: a thread_wakeup call has just run one tick before a sleeper's
\* wake time and has left it asleep.
C5_Witness ==
    /\ in_intr
    /\ \E t \in Threads : Asleep(t) /\ thread[t].wakeup_time = ticks + 1

\* X is due to wake no later than Y: earlier wake time, or the same wake time
\* and the earlier call to sleep.
WakesFirst(X, Y) ==
    \/ thread[X].wakeup_time < thread[Y].wakeup_time
    \/ /\ thread[X].wakeup_time = thread[Y].wakeup_time
       /\ Pos(waiting_list, X) < Pos(waiting_list, Y)

\* C6: a thread that goes to sleep is queued behind the sleepers already
\* there and sleepers keep their order; and whenever a sleeper Y is unblocked,
\* every sleeper X with an earlier wake time, or with the same wake time and
\* the earlier sleep call, has been unblocked already or is unblocked by the
\* same thread_wakeup call and put on the ready queue ahead of Y.
C6_WakeInDeadlineOrder ==
    [][/\ \A X \in Range(waiting_list), Y \in Range(waiting_list') :
             (X \in Range(waiting_list') /\ X # Y
              /\ (~Asleep(Y) \/ Pos(waiting_list, X) < Pos(waiting_list, Y)))
                 => Pos(waiting_list', X) < Pos(waiting_list', Y)
       /\ \A X \in Range(waiting_list), Y \in Range(waiting_list) :
             (X # Y /\ WakesFirst(X, Y) /\ Y \notin Range(waiting_list'))
                 => /\ X \notin Range(waiting_list')
                    /\ X \in Range(ready_list')
                    /\ Y \in Range(ready_list')
                    /\ Pos(ready_list', X) < Pos(ready_list', Y)]_vars

\* C6 witness: the sleep set holds a sleeper with a later wake time ahead of
\* one with an earlier wake time.
C6_Witness ==
    \E X \in Range(waiting_list), Y \in Range(waiting_list) :
        /\ Pos(waiting_list, Y) < Pos(waiting_list, X)
        /\ thread[X].wakeup_time < thread[Y].wakeup_time

\* The timer keeps interrupting while interrupts are on, an interrupt handler
\* returns, and a thread resumed inside sema_down's interrupts-off section
\* carries on.
FairSpec ==
    /\ Spec
    /\ WF_vars(TimerInterrupt)
    /\ WF_vars(IntrReturn)
    /\ WF_vars(\E c \in Threads : SemaRetry(c))
    /\ WF_vars(\E c \in Threads : SemaYield(c))

\* C7: under FairSpec every sleeper is eventually running again, off the
\* sleep set; the thread_wakeup call of the tick that reaches its wake time
\* unblocks it, putting it on the ready queue exactly once.
C7_SleepReturns ==
    /\ \A t \in Threads :
          Asleep(t) ~> (current = t /\ ~Asleep(t)
                        /\ thread[t].status = "RUNNING")
    /\ [][\A t \in Threads :
             (Asleep(t) /\ TickStep /\ thread[t].wakeup_time <= NowAfter)
                 => /\ t \notin Range(waiting_list')
                    /\ thread'[t].status = "READY"
                    /\ Cardinality({i \in 1 .. Len(ready_list') :
                                       ready_list'[i] = t}) = 1]_vars

\* C7 witness: a thread that has slept is running again with interrupts on.
C7_Witness ==
    /\ OutsideCritical
    /\ thread[current].status = "RUNNING"
    /\ thread[current].wakeup_time > 0
    /\ ~Asleep(current)

---------------------------------------------------------------------------
\* Preemption and queue order: C8, C9, C10.

\* C8: when a step outside interrupt context (thread_create's thread_unblock)
\* makes READY a thread of strictly higher priority than the running thread,
\* the running thread gives up the CPU in that step.
C8_PreemptOnReady ==
    [][(~in_intr /\ ~in_intr')
         => \A t \in Threads :
               (/\ thread[t].status = "BLOCKED"
                /\ thread'[t].status = "READY"
                /\ thread[t].priority > thread[current].priority)
                   => current' # current]_vars

\* C9: when the running thread changes its priority and is left with a lower
\* priority than some READY thread, it gives up the CPU in that step.
C9_YieldOnLowerPriority ==
    [][(/\ current' = current
        /\ thread[current].status = "RUNNING"
        /\ thread'[current].priority # thread[current].priority)
         => \A t \in Range(ready_list) :
               thread[t].priority <= thread'[current].priority]_vars

\* C10: threads are queued at the back of the ready queue and queued threads
\* keep their order, and a thread is never dispatched past a thread of the
\* same priority that is ahead of it on the ready queue.
C10_FifoWithinPriority ==
    [][/\ \A A \in Range(ready_list), B \in Range(ready_list') :
             (/\ A \in Range(ready_list') /\ A # B
              /\ thread[A].priority = thread'[B].priority
              /\ (B \notin Range(ready_list)
                  \/ Pos(ready_list, A) < Pos(ready_list, B)))
                 => Pos(ready_list', A) < Pos(ready_list', B)
       /\ \A A \in Range(ready_list), B \in Range(ready_list) :
             (/\ Pos(ready_list, A) < Pos(ready_list, B)
              /\ thread[A].priority = thread[B].priority)
                 => B \in Range(ready_list')]_vars

\* C10 witness: a thread has been dispatched from the front of a ready queue
\* on which a thread of its priority is still waiting.
C10_Witness ==
    /\ OutsideCritical
    /\ current # initial_thread
    /\ \E B \in Range(ready_list) :
          /\ B # initial_thread
          /\ thread[B].priority = thread[current].priority

---------------------------------------------------------------------------
\* Link nodes: C11.

\* How often thread t occurs in list s.
Count(s, t) == Cardinality({i \in 1 .. Len(s) : s[i] = t})

\* How often thread t occurs in the wait sets of the semaphores.
WaitCount(t) ==
    Cardinality({p \in UNION {{<<s, i>> : i \in 1 .. Len(sema[s].waiters)} :
                                 s \in Semas} :
                    sema[p[1]].waiters[p[2]] = t})

\* C11: the link node of every thread is on at most one of ready_list,
\* waiting_list, destruction_req and the semaphore wait sets, and at most
\* once on it.
C11_ElemOnOneList ==
    \A t \in Threads :
        Count(ready_list, t) + Count(waiting_list, t)
            + Count(destruction_req, t) + WaitCount(t) <= 1

\* C11 witness: the ready queue, the sleep set and the destruction queue are
\* in use in one state, after a sleep, an exit and a yield or wake-up.
C11_Witness ==
    /\ ready_list # <<>>
    /\ waiting_list # <<>>
    /\ destruction_req # <<>>

---------------------------------------------------------------------------
\* Priority fields: C12.

MaxOf(S) == CHOOSE x \in S : \A y \in S : y <= x

\* The priorities of the threads on t's donations list.
DonorPriorities(t) ==
    {thread[thread[t].donations[i]].priority :
        i \in 1 .. Len(thread[t].donations)}

\* C12: for every thread, the priority that the scheduler uses (priority) is
\* the maximum of its base priority (initial_priority) and the priorities of
\* the threads on its donations list; with no donors the two are equal.
C12_DonationCorrectness ==
    \A t \in Threads :
        thread[t].status # "NONE" =>
            thread[t].priority
                = MaxOf({thread[t].initial_priority} \cup DonorPriorities(t))

---------------------------------------------------------------------------
\* Lifecycle: C13.

\* The edges of the lifecycle state machine; "NONE" is a page that is not a
\* thread (before thread_create's init_thread, after palloc_free_page).
LifecycleEdges ==
    {<<"NONE", "BLOCKED">>, <<"BLOCKED", "READY">>, <<"READY", "RUNNING">>,
     <<"RUNNING", "READY">>, <<"RUNNING", "BLOCKED">>, <<"RUNNING", "DYING">>,
     <<"DYING", "NONE">>}

\* thread_exit does not return: t stays where thread_exit left it.
ExitIsFinal(t) ==
    thread[t].pc = "dying" =>
        /\ thread'[t].pc \in {"dying", "none"}
        /\ current' # t

\* C13 as claimed: every change of a thread's status, the idle thread's
\* included, is an edge of the lifecycle state machine, a DYING thread is
\* never READY, BLOCKED or RUNNING again and thread_exit does not return.
C13_LifecycleEdgesAll ==
    [][\A t \in Threads :
          /\ thread'[t].status # thread[t].status
                 => <<thread[t].status, thread'[t].status>> \in LifecycleEdges
          /\ ExitIsFinal(t)]_vars

\* C13 amended: the same, except that the idle thread also goes from BLOCKED
\* straight to RUNNING.
C13_LifecycleEdges ==
    [][\A t \in Threads :
          /\ thread'[t].status # thread[t].status
                 => \/ <<thread[t].status, thread'[t].status>> \in LifecycleEdges
                    \/ /\ t = idle_thread
                       /\ thread[t].status = "BLOCKED"
                       /\ thread'[t].status = "RUNNING"
          /\ ExitIsFinal(t)]_vars

\* C13 witness: a dispatched thread runs while another is DYING, another
\* BLOCKED asleep and another READY.
C13_Witness ==
    /\ thread[current].status = "RUNNING"
    /\ \E t \in Threads : thread[t].status = "DYING"
    /\ \E t \in Range(waiting_list) : thread[t].status = "BLOCKED"
    /\ \E t \in Range(ready_list) : thread[t].status = "READY"

---------------------------------------------------------------------------
\* thread_unblock: C14.

\* C14: thread_unblock(t) on a thread that is not BLOCKED fails its ASSERT
\* and changes neither the ready queue nor any thread; on a BLOCKED thread it
\* appends t to the ready queue, where t then is exactly once, sets its
\* status to READY and changes no other queue.  In no step at all does a
\* READY or DYING thread gain a place on the ready queue.
C14_UnblockContract ==
    [][/\ \A c \in Threads, t \in Threads :
             Unblock(c, t) =>
                 IF thread[t].status # "BLOCKED"
                 THEN /\ panic'
                      /\ ready_list' = ready_list
                      /\ thread' = thread
                 ELSE /\ ~panic'
                      /\ ready_list' = Append(ready_list, t)
                      /\ Count(ready_list', t) = 1
                      /\ thread'[t].status = "READY"
                      /\ \A u \in Threads \ {t} :
                            thread'[u].status = thread[u].status
                      /\ waiting_list' = waiting_list
                      /\ destruction_req' = destruction_req
                      /\ sema' = sema
       /\ \A t \in Threads :
             thread[t].status \in {"READY", "DYING"}
                 => Count(ready_list', t) <= Count(ready_list, t)]_vars

\* C14 witness: thread_unblock has put the blocked idle thread on the ready
\* queue, and a later thread_unblock of a thread that was not BLOCKED has
\* failed its ASSERT.
C14_Witness ==
    /\ panic
    /\ idle_thread # NULL
    /\ idle_thread \in Range(ready_list)
    /\ thread[idle_thread].status = "READY"

---------------------------------------------------------------------------
\* Teardown: C15.

\* C15: the bootstrap thread is never on the destruction queue and its page
\* is never freed; the running thread is never on the destruction queue; and
\* a page is freed only when its thread is DYING, is on the destruction queue
\* (schedule() has switched away from it) and is not the running thread,
\* whose do_schedule does the freeing.
C15_TwoPhaseTeardown ==
    /\ [](/\ initial_thread \notin Range(destruction_req)
          /\ thread[initial_thread].status # "NONE"
          /\ current \notin Range(destruction_req)
          /\ thread[current].status # "NONE")
    /\ [][\A t \in Threads :
             (thread[t].status # "NONE" /\ thread'[t].status = "NONE")
                 => /\ t # current
                    /\ t # initial_thread
                    /\ thread[t].status = "DYING"
                    /\ t \in Range(destruction_req)
                    /\ t \notin Range(destruction_req')]_vars

\* C15 witness: the bootstrap thread has exited and is still there, while
\* the page of another thread that exited has been freed (a free page below
\* a page that is in use).
C15_Witness ==
    /\ thread[initial_thread].status = "DYING"
    /\ \E t \in Threads, u \in Threads :
          /\ t < u
          /\ thread[t].status = "NONE"
          /\ thread[u].status # "NONE"

---------------------------------------------------------------------------
\* thread_create without a page.

\* Every page of the kernel's pool is in use.
PoolExhausted == \A t \in 1 .. (MaxUser + 1) : thread[t].status # "NONE"

\* C16: a thread_create called when the page allocator has no page returns
\* TID_ERROR and changes nothing of the scheduler: next_tid and the tids owed
\* to creations under way are as before (the next successful create gets the
\* tid it would have got), and so are the ready queue and every thread's
\* status.
C16_CreateFailure ==
    [][\A c \in Threads, p \in Priorities :
          CreateBegin(c, p, MaxUser, MaxTid) /\ PoolExhausted
          => /\ ret' = TID_ERROR
             /\ next_tid' = next_tid
             /\ TidsPromised' = TidsPromised
             /\ ready_list' = ready_list
             /\ \A t \in Threads : thread'[t].status = thread[t].status]_vars

\* A thread_create has just failed for want of a page.
C16_Witness == ret = TID_ERROR /\ PoolExhausted

---------------------------------------------------------------------------
\* Thread identifiers.

\* C17: no two threads have the same tid, and tids are given out in
\* increasing order: next_tid never decreases and a tid that a step assigns
\* is at least the next_tid before the step and below the next_tid after it,
\* hence above every tid assigned before. This holds for every interleaving
\* of thread_create calls, a preemption between the read and the write of
\* next_tid included.
C17_TidsUniqueMonotonic ==
    /\ [](\A t \in Threads, u \in Threads :
             (t # u /\ thread[t].tid # 0 /\ thread[u].tid # 0)
                 => thread[t].tid # thread[u].tid)
    /\ [](\A t \in Threads : thread[t].tid < next_tid)
    /\ [][/\ next_tid' >= next_tid
          /\ \A t \in Threads :
                (thread'[t].tid # 0 /\ thread'[t].tid # thread[t].tid)
                    => /\ thread'[t].tid >= next_tid
                       /\ thread'[t].tid < next_tid']_vars

\* C17 witness: a thread that holds tid_lock has read next_tid and not yet
\* written it, the thread_create of another thread waits for the lock, and
\* an earlier thread_create has given a thread its tid.
C17_Witness ==
    \E c \in Threads, d \in Threads :
        /\ thread[c].pc = "tid_incr"
        /\ holder["tid_lock"] = c
        /\ d \in Range(sema["tid_lock"].waiters)
        /\ thread[d].creating # NULL
        /\ \E t \in Threads \ {initial_thread, idle_thread} :
               thread[t].tid # 0

---------------------------------------------------------------------------
\* The idle thread and the ready queue.

\* t executes the function idle().
RunsIdle(t) ==
    \/ thread[t].pc \in {"idle_init", "idle_up", "idle_loop", "idle_hlt"}
    \/ thread[t].pc = "sema_yield" /\ thread[t].sema = "idle_started"

\* A step that dispatches t.
Dispatched(t) == current # t /\ current' = t

\* C18 as stated: from thread_start onwards the idle thread is never on the
\* ready queue, and it is dispatched only when the ready queue is empty.
C18_IdleNeverQueuedAll ==
    /\ [](\A t \in Threads : RunsIdle(t) => t \notin Range(ready_list))
    /\ [][\A t \in Threads :
             (RunsIdle(t) /\ Dispatched(t))
                 => ready_list = <<>> /\ ready_list' = <<>>]_vars

\* C18 as amended: once the idle thread has recorded itself in idle_thread
\* it is never on the ready queue, and it is dispatched only when the ready
\* queue is empty, as the fallback of next_thread_to_run.
C18_IdleNeverQueued ==
    /\ [](idle_thread # NULL => /\ RunsIdle(idle_thread)
                                /\ idle_thread \notin Range(ready_list))
    /\ [][(idle_thread # NULL /\ Dispatched(idle_thread))
             => ready_list = <<>> /\ ready_list' = <<>>]_vars

\* C18 witness: the idle thread has been dispatched as the fallback and has
\* then yielded to a thread that became ready: it is READY and off the ready
\* queue, on which another thread waits.
C18_Witness ==
    /\ idle_thread # NULL
    /\ thread[idle_thread].status = "READY"
    /\ thread[idle_thread].pc = "idle_loop"
    /\ current # initial_thread
    /\ ready_list # <<>>

---------------------------------------------------------------------------
\* thread_start and the idle thread.

\* The bootstrap thread is inside thread_start.
InThreadStart ==
    \/ thread[initial_thread].pc \in
           {"boot", "boot_create", "boot_enable", "boot_down"}
    \/ /\ thread[initial_thread].pc = "sema_retry"
       /\ thread[initial_thread].sema = "idle_started"

\* The idle thread has recorded itself and has called sema_up(idle_started).
IdleSignalled ==
    /\ idle_thread # NULL
    /\ RunsIdle(idle_thread)
    /\ thread[idle_thread].pc \notin {"idle_init", "idle_up"}

\* C19: thread_start returns only after the idle thread has run, recorded
\* itself in idle_thread and signalled idle_started: whenever the bootstrap
\* thread is outside thread_start, and in the step in which thread_start
\* returns, idle_thread is set and the sema_up has been done.
C19_StartAfterIdle ==
    /\ [](~InThreadStart => IdleSignalled)
    /\ [][(InThreadStart /\ ~InThreadStart') => IdleSignalled]_vars

\* C19 witness: thread_start has returned to the bootstrap thread, which
\* runs on; the signal of the idle thread has been consumed.
C19_Witness ==
    /\ ~InThreadStart
    /\ current = initial_thread
    /\ thread[initial_thread].pc = "run"
    /\ sema["idle_started"].value = 0
    /\ \A t \in Threads \ {initial_thread, idle_thread} :
          thread[t].status = "NONE"

---------------------------------------------------------------------------
\* The time slice.

\* The step that ends the timer interrupt in which the slice ran out.
SliceEnd == in_intr /\ ~in_intr' /\ thread_ticks = TIME_SLICE

\* The counting of C20: thread_ticks never passes TIME_SLICE, the handler
\* has asked for the yield on return exactly when thread_ticks has reached
\* TIME_SLICE, and every dispatch resets thread_ticks to 0.
SliceCounted ==
    /\ [](/\ thread_ticks <= TIME_SLICE
          /\ yield_on_return <=> (in_intr /\ thread_ticks = TIME_SLICE))
    /\ [][\A t \in Threads : Dispatched(t) => thread_ticks' = 0]_vars

\* C20 as stated: with the counting above, whenever some thread is READY
\* the running thread is preempted at the end of its fourth tick.
C20_TimeSliceAll ==
    /\ SliceCounted
    /\ [][(SliceEnd /\ \E t \in Threads : thread[t].status = "READY")
             => current' # current]_vars

\* C20 as amended: with the counting above, whenever some thread is on the
\* ready queue the running thread is preempted at the end of its fourth
\* tick: the head of the queue is dispatched and the running thread goes to
\* the back of the queue, or off the queue if it is the idle thread.
C20_TimeSlice ==
    /\ SliceCounted
    /\ [][(SliceEnd /\ ready_list # <<>>)
             => /\ current' = Head(ready_list)
                /\ current' # current
                /\ thread'[current].status = "READY"
                /\ thread'[current'].status = "RUNNING"
                /\ thread_ticks' = 0]_vars

\* C20 witness: the fourth tick of a thread other than the idle thread has
\* asked for the yield on return while another thread waits on the ready
\* queue.
C20_Witness ==
    /\ in_intr
    /\ yield_on_return
    /\ thread_ticks = TIME_SLICE
    /\ current # idle_thread
    /\ ready_list # <<>>

---------------------------------------------------------------------------
\* The range of priorities.

\* C21: with thread_create and thread_set_priority called with any integer,
\* the priority and the base priority of every thread lie in
\* PRI_MIN .. PRI_MAX, and a call with an integer outside the range fails an
\* assertion.
C21_PriorityInRange ==
    /\ [](\A t \in Threads :
             thread[t].status # "NONE"
                 => /\ priority_ok(thread[t].priority)
                    /\ priority_ok(thread[t].initial_priority))
    /\ [][\A c \in Threads, p \in AnyPriority :
             (~priority_ok(p) /\ (\/ SetPriority(c, p)
                                  \/ /\ CreateBegin(c, p, MaxUser, MaxTid)
                                     /\ ~PoolExhausted))
                 => panic']_vars

---------------------------------------------------------------------------
\* System calls.

\* The system call of c that begins in this step has the pointer argument a.
CallWithPointer(c, a) ==
    \/ \E n \in {"create", "remove", "open"} : SysPath(c, n, a)
    \/ \E fd \in Fds : SysWrite(c, fd, a)
    \/ \E fd \in Fds, last \in UserPointers :
          SysRead(c, fd, a, last) \/ SysRead(c, fd, last, a)
    \/ \E page \in BOOLEAN : SysExec(c, a, page)
    \/ SysFork(c, a)

\* C22: a system call whose pointer argument is null, in the kernel half or
\* not mapped ends the process with exit status -1 without entering a kernel
\* service and without a panic, and no thread is inside a service with such
\* a pointer.
C22_PointersValidated ==
    /\ [](\A t \in Threads :
             thread[t].sys.svc \notin {"none", "file_close"}
                 => thread[t].sys.uptr = "mapped")
    /\ [][\A c \in Threads, a \in UserPointers \ {"mapped"} :
             CallWithPointer(c, a)
                 => /\ thread'[c].status = "DYING"
                    /\ thread'[c].exit_status = -1
                    /\ thread'[c].sys.svc = "none"
                    /\ ~panic']_vars

\* The operations of the filesystem.
FsOps ==
    {"filesys_create", "filesys_remove", "filesys_open", "file_read",
     "file_write", "file_close"}

\* t is inside a filesystem operation.
InFilesys(t) == thread[t].sys.svc \in FsOps

\* C23: a thread inside a filesystem operation holds filesys_lock, so no two
\* threads are inside the filesystem at once, and a thread that is back in
\* user code does not hold the lock.
C23_FilesysSerialized ==
    /\ \A t \in Threads : InFilesys(t) => holder["filesys_lock"] = t
    /\ \A t \in Threads, u \in Threads :
          (InFilesys(t) /\ InFilesys(u)) => t = u
    /\ \A t \in Threads :
          thread[t].pc = "run" => holder["filesys_lock"] # t

\* C24: a thread inside process_exec is in the only invocation of its exec
\* call, and the page of the command-line copy is allocated.
C24_ExecOnce ==
    \A t \in Threads :
        thread[t].sys.svc = "process_exec"
            => /\ thread[t].sys.execs = 1
               /\ thread[t].sys.copy = "allocated"

---------------------------------------------------------------------------
\* list_sort.

Position(l, e) == CHOOSE i \in DOMAIN l : l[i] = e
Equivalent(a, b) == ~less(sort_aux, a, b) /\ ~less(sort_aux, b, a)

\* Runs of nondecreasing elements in the list that list_sort was given.
Descents(l) == {i \in 1 .. (Len(l) - 1) : less(sort_aux, l[i + 1], l[i])}

\* C25: after list_sort the list holds exactly the elements it held before,
\* each once (none lost, none linked twice), and no element is less than
\* the one in front of it; the closing ASSERT of list_sort never fails.  This
\* covers the empty list, one-element lists and every strict weak order.
C25_SortPermutation ==
    sort_input.called =>
        /\ ~panic
        /\ Len(sort_list) = Len(sort_input.list)
        /\ \A e \in Elems : Count(sort_list, e) = Count(sort_input.list, e)
        /\ \A i \in 1 .. (Len(sort_list) - 1) :
               ~less(sort_aux, sort_list[i + 1], sort_list[i])

\* A list of three runs or more has been sorted, which takes a second pass.
C25_Witness ==
    /\ sort_input.called
    /\ Cardinality(Descents(sort_input.list)) >= 2
    /\ sort_list # sort_input.list
    /\ is_sorted(sort_list, sort_aux)

\* C26: two elements that the comparator holds equivalent leave list_sort in
\* the order in which they entered it.
C26_SortStable ==
    sort_input.called =>
        \A i, j \in DOMAIN sort_input.list :
            (i < j /\ Equivalent(sort_input.list[i], sort_input.list[j]))
                => Position(sort_list, sort_input.list[i])
                       < Position(sort_list, sort_input.list[j])

\* Two equivalent elements of different runs have been through a merge that
\* moved an element.
C26_Witness ==
    /\ sort_input.called
    /\ sort_list # sort_input.list
    /\ \E i, j \in DOMAIN sort_input.list :
           /\ i < j
           /\ Equivalent(sort_input.list[i], sort_input.list[j])
           /\ \E k \in Descents(sort_input.list) : i <= k /\ k < j

---------------------------------------------------------------------------
\* Interrupts and the scheduler's queues.

\* The step pushes, pops or removes on one of the three queues.
QueueMutation ==
    \/ ready_list' # ready_list
    \/ waiting_list' # waiting_list
    \/ destruction_req' # destruction_req

\* The step is, or ends inside, a semaphore operation of threads/synch.c.
SynchStep == sema' # sema

\* The step is the timer interrupt handler, which the CPU enters with
\* interrupts off.
HandlerStep == ~in_intr /\ in_intr' /\ intr_level' = "OFF"

\* C27: thread.c updates ready_list, waiting_list and destruction_req with
\* interrupts off only.  A thread that is behind the intr_disable () of
\* thread_yield, thread_exit, thread_sleep, thread_unblock or idle and has
\* not finished the queue update runs with interrupts off, so the timer
\* interrupt is never taken there; and every step that changes a queue
\* starts with interrupts off or is the interrupt handler itself.
C27_QueuesUnderIntrOff ==
    /\ [](thread[current].pc \in OffSections => intr_level = "OFF")
    /\ [][(~in_intr /\ in_intr') => thread[current].pc \notin OffSections]_vars
    /\ [][(QueueMutation /\ ~SynchStep)
            => (intr_level = "OFF" \/ HandlerStep)]_vars

\* A thread is inside thread_sleep, behind intr_disable () and before
\* list_push_back, while another sleeps and a third is ready.
C27_Witness ==
    /\ thread[current].pc = "thread_sleep"
    /\ intr_level = "OFF"
    /\ waiting_list # <<>>
    /\ ready_list # <<>>

---------------------------------------------------------------------------
\* thread_wakeup.

\* C28: the thread_wakeup (now) of a timer interrupt wakes exactly the
\* sleepers that are due.  Every thread that was on the sleep set with a wake
\* time of now or earlier is READY, once on the ready queue and off the sleep
\* set; every other sleeper is still BLOCKED and on the sleep set; the
\* sleepers left keep their order; no ASSERT fails.  The sleepers are in the
\* order of their calls, whatever their wake times.
C28_WakeupExact ==
    [][HandlerStep =>
        LET now == ticks + 1
        IN  /\ ~panic'
            /\ \A t \in Range(waiting_list) :
                   IF thread[t].wakeup_time <= now
                   THEN /\ thread'[t].status = "READY"
                        /\ Count(ready_list', t) = 1
                        /\ t \notin Range(waiting_list')
                   ELSE /\ thread'[t].status = "BLOCKED"
                        /\ t \in Range(waiting_list')
                        /\ t \notin Range(ready_list')
            /\ waiting_list'
                   = SelectSeq(waiting_list,
                               LAMBDA t : thread[t].wakeup_time > now)]_vars

\* A timer interrupt has just woken a sleeper that was due at this tick and
\* has left another whose wake time is still ahead.
C28_Witness ==
    /\ in_intr
    /\ ticks > 0
    /\ \E t \in Range(ready_list) :
           thread[t].status = "READY" /\ thread[t].wakeup_time = ticks
    /\ \E u \in Range(waiting_list) : thread[u].wakeup_time > ticks

---------------------------------------------------------------------------
\* The order of the sleep set.

\* C29: the sleep set is ordered by wake time: a thread in front of another
\* on waiting_list wakes no later than the other.
C29_SleepSetOrdered ==
    \A i, j \in 1 .. Len(waiting_list) :
        i < j => thread[waiting_list[i]].wakeup_time
                     <= thread[waiting_list[j]].wakeup_time

---------------------------------------------------------------------------
\* Deferred destruction.

\* The step runs do_schedule: thread_yield (called by a thread, at the end of
\* sema_up or on the return from an interrupt) or thread_exit.
DoSchedulePass ==
    \/ \E c \in Threads : Yield(c) \/ Exit(c) \/ SemaYield(c)
    \/ IntrReturn /\ yield_on_return

\* The step runs schedule () without do_schedule: thread_block, called by
\* thread_sleep, sema_down or idle.  A blocked thread is always switched from.
BlockPass == current' # current /\ ~DoSchedulePass

\* Every thread that is on the destruction queue before the step is freed by
\* it.
QueueFreed ==
    \A t \in Range(destruction_req) :
        thread'[t].status = "NONE" /\ t \notin Range(destruction_req')

---------------------------------------------------------------------------
\* The idle thread as the fallback of the scheduler.

\* The step is a thread_yield.
YieldPass ==
    \/ \E c \in Threads : Yield(c) \/ SemaYield(c)
    \/ IntrReturn /\ yield_on_return

\* The step runs schedule ().
SchedulingPass ==
    DoSchedulePass \/ BlockPass \/ \E c \in Threads : IdleBlock(c)

\* The ready queue as the step's next_thread_to_run finds it.
ReadySeen ==
    IF YieldPass THEN yield_queue(ready_list, current) ELSE ready_list

\* C31: once the idle thread has recorded itself in idle_thread (which is
\* before it first blocks), no thread_unblock, thread_yield or thread_wakeup
\* puts it on ready_list, and every scheduling decision dispatches it exactly
\* when next_thread_to_run finds the ready queue empty; this includes the
\* yield that ends a time slice of the idle thread itself.
C31_IdleIsFallback ==
    /\ [][(idle_thread # NULL /\ idle_thread' \in Range(ready_list'))
            => idle_thread \in Range(ready_list)]_vars
    /\ [](idle_thread # NULL /\ thread[idle_thread].pc = "idle_hlt"
            => idle_thread \notin Range(ready_list))
    /\ [][(idle_thread # NULL /\ SchedulingPass /\ ~panic')
            => (current' = idle_thread <=> ReadySeen = <<>>)]_vars

\* The idle thread has blocked and is on the CPU again as the fallback,
\* halted, while a thread sleeps and none is ready.
C31_Witness ==
    /\ idle_thread # NULL
    /\ current = idle_thread
    /\ thread[idle_thread].pc = "idle_hlt"
    /\ thread[idle_thread].status = "RUNNING"
    /\ waiting_list # <<>>
    /\ ready_list = <<>>
    /\ ~in_intr

---------------------------------------------------------------------------
\* list_insert_ordered.

Without(l, e) == SelectSeq(l, LAMBDA x : x # e)

\* C32: list_insert_ordered links the new element once and leaves the other
\* elements in their order, so the list grows by one; the new element stands
\* behind every element it is not less than up to its place and in front of
\* the first element that it is less than; a list that was nondecreasing is
\* nondecreasing afterwards, with the new element behind every element
\* equivalent to it.
C32_InsertOrdered ==
    sort_input.inserted # 0 =>
        LET elem == sort_input.inserted
            old == sort_input.list
            at == Position(sort_list, elem)
        IN  /\ Len(sort_list) = Len(old) + 1
            /\ Count(sort_list, elem) = 1
            /\ Without(sort_list, elem) = old
            /\ \A i \in 1 .. (at - 1) : ~less(sort_aux, elem, sort_list[i])
            /\ at < Len(sort_list) => less(sort_aux, elem, sort_list[at + 1])
            /\ is_sorted(old, sort_aux) =>
                   /\ is_sorted(sort_list, sort_aux)
                   /\ \A i \in 1 .. Len(sort_list) :
                          (i # at /\ Equivalent(elem, sort_list[i])) => i < at

\* An element has been inserted into a sorted list between an element
\* equivalent to it and a greater one.
C32_Witness ==
    /\ sort_input.inserted # 0
    /\ is_sorted(sort_input.list, sort_aux)
    /\ \E at \in 2 .. (Len(sort_list) - 1) :
           /\ sort_list[at] = sort_input.inserted
           /\ Equivalent(sort_list[at], sort_list[at - 1])
           /\ less(sort_aux, sort_list[at], sort_list[at + 1])

---------------------------------------------------------------------------
\* Starvation.

\* FairSpec, and thread_start runs on as far as its intr_enable (): no thread
\* keeps interrupts off for ever.
ProgressSpec ==
    /\ FairSpec
    /\ WF_vars(BootCreateIdle)
    /\ WF_vars(BootCreateFinish)
    /\ WF_vars(BootEnable)

\* C33 as stated: under ProgressSpec every thread whose status is READY is
\* eventually the running thread.
C33_ReadyDispatchedAll ==
    \A t \in Threads :
        (thread[t].status = "READY")
            ~> (current = t /\ thread[t].status = "RUNNING")

\* C33, amended: under ProgressSpec every thread that is on the ready queue is
\* eventually the running thread, whatever its priority and whatever the
\* other threads do.  The idle thread, which is READY and off the ready queue
\* after it has yielded, is dispatched only when the queue is empty, and may
\* wait for ever.
C33_QueuedDispatched ==
    \A t \in Threads :
        (t \in Range(ready_list))
            ~> (current = t /\ thread[t].status = "RUNNING")

\* The time slice of the running thread has ended in the timer interrupt
\* while two threads wait on the ready queue, the second of a priority below
\* the first's.
C33_Witness ==
    /\ in_intr
    /\ yield_on_return
    /\ Len(ready_list) >= 2
    /\ thread[ready_list[2]].priority < thread[ready_list[1]].priority

---------------------------------------------------------------------------
\* The page of a thread that has exited.

\* The page of t is freed by the step.
Freed(t) == thread[t].status # "NONE" /\ thread'[t].status = "NONE"

\* What holds of the destruction queue and of the thread_exit of a thread
\* other than the bootstrap thread, with or without timer ticks.
ExitSafety ==
    /\ [](\A t \in Range(destruction_req) :
             /\ thread[t].status = "DYING"
             /\ Count(destruction_req, t) = 1
             /\ t # current)
    /\ [][\A c \in Threads \ {initial_thread} :
             (Exit(c) /\ ~panic')
                 => /\ thread'[c].status = "DYING"
                    /\ Count(destruction_req', c) = 1
                    /\ c \notin Range(destruction_req)
                    /\ current' # c]_vars
    /\ [][\A t \in Threads :
             /\ Freed(t) => /\ Count(destruction_req, t) = 1
                            /\ t \notin Range(destruction_req')
             /\ (t \in Range(destruction_req)
                     /\ t \notin Range(destruction_req')) => Freed(t)
             /\ (thread[t].status = "DYING" /\ ~Freed(t))
                     => thread'[t].status = "DYING"]_vars

---------------------------------------------------------------------------
\* The scheduler's assertions.

\* C35: in the kernel started by thread_init and thread_start, with the
\* calls of Spec, no ASSERT of the scheduler fails.  The thread on the CPU is
\* RUNNING whenever thread_current or do_schedule looks at it; whenever
\* schedule () runs, the outgoing thread's new status is not RUNNING and
\* next_thread_to_run has a thread to return (the ready queue is not empty
\* or idle_thread is set), which is RUNNING afterwards; and a thread that is
\* appended to the destruction queue is the one switched from, never the one
\* switched to.
C35_AssertionsHold ==
    /\ [](~panic /\ thread[current].status = "RUNNING")
    /\ [][SchedulingPass =>
            /\ ReadySeen # <<>> \/ idle_thread # NULL
            /\ current' # NULL
            /\ thread'[current'].status = "RUNNING"
            /\ current' # current => thread'[current].status # "RUNNING"]_vars
    /\ [][\A t \in Range(destruction_req') :
             t \notin Range(destruction_req) => t = current /\ t # current']_vars

\* The bootstrap thread has exited, another dead thread is on the destruction
\* queue, and the idle thread runs as the fallback of an empty ready queue.
C35_Witness ==
    /\ thread[initial_thread].status = "DYING"
    /\ destruction_req # <<>>
    /\ idle_thread # NULL
    /\ current = idle_thread
    /\ ready_list = <<>>
    /\ ~panic

---------------------------------------------------------------------------
\* The interrupt level across thread_unblock, thread_yield and thread_sleep.

\* C36: thread_yield and thread_sleep return with the interrupt level at
\* which they were called, on or off, whatever ran in between and at
\* whatever level; and so does thread_unblock, which switches to no thread.
C36_LevelPreserved ==
    /\ [][\A c \in Threads :
             LevelReturn(c) => intr_level' = thread[c].call_level]_vars
    /\ [][\A c \in Threads :
             CreateUnblock(c) => intr_level' = intr_level]_vars
    /\ [](\A c \in Threads :
             (Running(c) /\ thread[c].pc \in {"yield_return", "sleep_return"})
                 => intr_level = "OFF")

\* A thread that called thread_sleep with interrupts off has been woken and
\* switched to, and is about to return, while the thread that ran meanwhile
\* with interrupts on is on the ready queue.
C36_Witness ==
    /\ thread[current].pc = "sleep_return"
    /\ thread[current].call_level = "OFF"
    /\ ~in_intr
    /\ \E t \in Range(ready_list) : thread[t].pc = "run"
====
